---- MODULE Spec2Model ----
(***************************************************************************)
(* A model of unordered-sql: the tokenizer (tokenizer.py), the token model *)
(* (my_token.py), the AST (my_ast.py) and the recursive-descent parser     *)
(* (parser.py).  A text is a sequence of one-character strings; positions  *)
(* are 0-based as in the source, so token spans read as the source's.      *)
(***************************************************************************)
EXTENDS Naturals, Integers, Sequences, FiniteSets, TLC

VARIABLES
    text,        \* Tokenizer.text / the text handed to Parser
    tokenizer,   \* the Tokenizer object: start_position, peek_queue,
                 \* end_idx_of_last_consumed_token
    consumed,    \* history: the tokens returned by consume(), in order
    peeked,      \* history: <<j, k, token>> when a peek(k) has returned `token`
                 \* as the one the j-th consume() from now is to return (k the
                 \* largest such)
    last,        \* history: the last call made on the tokenizer and its result
    start_offset,\* the start_position the Tokenizer / Parser was created with
    input,       \* how the text was written: its family and its parts
    pc,          \* where the caller of the parser is
    ret,         \* parse_all's ret, or what the entry point called returned
    stalled,     \* history: a loop of the parser ran an iteration that
                 \* consumed no token and did not leave the loop
    raised       \* history: an exception escaped the parser

vars ==
    <<text, tokenizer, consumed, peeked, last, start_offset, input, pc, ret,
      stalled, raised>>

-----------------------------------------------------------------------------
(* Characters: str.isalpha, str.isalnum, str.isspace on the ASCII range.   *)

Lower == <<"a", "b", "c", "d", "e", "f", "g", "h", "i", "j", "k", "l", "m",
           "n", "o", "p", "q", "r", "s", "t", "u", "v", "w", "x", "y", "z">>

Upper == <<"A", "B", "C", "D", "E", "F", "G", "H", "I", "J", "K", "L", "M",
           "N", "O", "P", "Q", "R", "S", "T", "U", "V", "W", "X", "Y", "Z">>

Letters == {Lower[i] : i \in 1..26} \cup {Upper[i] : i \in 1..26}

Digits == {"0", "1", "2", "3", "4", "5", "6", "7", "8", "9"}

isalpha(c) == c \in Letters

isalnum(c) == c \in Letters \cup Digits

isspace(c) == c \in {" ", "\t", "\n", "\r", "\f"}

\* str.lower() of one character
lower(c) ==
    IF \E i \in 1..26 : Upper[i] = c
    THEN Lower[CHOOSE i \in 1..26 : Upper[i] = c]
    ELSE c

\* str.lower() of a text
LowerText(s) == [i \in 1..Len(s) |-> lower(s[i])]

\* text[p] with the source's 0-based index
At(txt, p) == txt[p + 1]

\* text[a:b]
Slice(txt, a, b) == SubSeq(txt, a + 1, b)

-----------------------------------------------------------------------------
(* my_token.py: the token classes and the tables.                          *)

NameToken(start, length, type) ==
    [tag |-> "NameToken", type |-> type, start |-> start, length |-> length,
     has_end_sequence |-> TRUE]

NumberToken(start, length) ==
    [tag |-> "NumberToken", type |-> "NumberToken", start |-> start,
     length |-> length, has_end_sequence |-> TRUE]

PunctuationToken(start, length, type) ==
    [tag |-> "PunctuationToken", type |-> type, start |-> start,
     length |-> length, has_end_sequence |-> TRUE]

SpecialToken(start, length, type, has_end_sequence) ==
    [tag |-> "SpecialToken", type |-> type, start |-> start, length |-> length,
     has_end_sequence |-> has_end_sequence]

\* token.start + token.length
TokenEnd(token) == token.start + token.length

\* NameTokenType, as text_to_name_token lists it: value.lower() -> member
NameKeywords ==
    { [text |-> <<"s", "e", "l", "e", "c", "t">>, type |-> "SELECT"],
      [text |-> <<"f", "r", "o", "m">>, type |-> "FROM"],
      [text |-> <<"w", "h", "e", "r", "e">>, type |-> "WHERE"],
      [text |-> <<"g", "r", "o", "u", "p">>, type |-> "GROUP"],
      [text |-> <<"o", "r", "d", "e", "r">>, type |-> "ORDER"],
      [text |-> <<"b", "y">>, type |-> "BY"],
      [text |-> <<"i", "n", "s", "e", "r", "t">>, type |-> "INSERT"],
      [text |-> <<"i", "n", "t", "o">>, type |-> "INTO"],
      [text |-> <<"v", "a", "l", "u", "e", "s">>, type |-> "VALUES"],
      [text |-> <<"d", "e", "l", "e", "t", "e">>, type |-> "DELETE"],
      [text |-> <<"c", "a", "s", "e">>, type |-> "CASE"],
      [text |-> <<"u", "s", "i", "n", "g">>, type |-> "USING"],
      [text |-> <<"a", "s">>, type |-> "AS"],
      [text |-> <<"d", "i", "s", "t", "i", "n", "c", "t">>, type |-> "DISTINCT"],
      [text |-> <<"n", "u", "l", "l">>, type |-> "NULL"],
      [text |-> <<"a", "s", "c">>, type |-> "ASC"],
      [text |-> <<"d", "e", "s", "c">>, type |-> "DESC"],
      [text |-> <<"n", "u", "l", "l", "s">>, type |-> "NULLS"],
      [text |-> <<"f", "i", "r", "s", "t">>, type |-> "FIRST"],
      [text |-> <<"l", "a", "s", "t">>, type |-> "LAST"],
      [text |-> <<"e", "x", "i", "s", "t", "s">>, type |-> "EXISTS"],
      [text |-> <<"l", "e", "f", "t">>, type |-> "LEFT"],
      [text |-> <<"r", "i", "g", "h", "t">>, type |-> "RIGHT"],
      [text |-> <<"f", "u", "l", "l">>, type |-> "FULL"],
      [text |-> <<"i", "n", "n", "e", "r">>, type |-> "INNER"],
      [text |-> <<"o", "u", "t", "e", "r">>, type |-> "OUTER"],
      [text |-> <<"s", "t", "r", "a", "i", "g", "h", "t">>, type |-> "STRAIGHT"],
      [text |-> <<"c", "r", "o", "s", "s">>, type |-> "CROSS"],
      [text |-> <<"n", "a", "t", "u", "r", "a", "l">>, type |-> "NATURAL"],
      [text |-> <<"j", "o", "i", "n">>, type |-> "JOIN"],
      [text |-> <<"o", "n">>, type |-> "ON"],
      [text |-> <<"u", "n", "i", "o", "n">>, type |-> "UNION"],
      [text |-> <<"e", "x", "c", "e", "p", "t">>, type |-> "EXCEPT"],
      [text |-> <<"i", "n", "t", "e", "r", "s", "e", "c", "t">>, type |-> "INTERSECT"],
      [text |-> <<"i", "s">>, type |-> "IS"],
      [text |-> <<"n", "o", "t">>, type |-> "NOT"],
      [text |-> <<"a", "n", "d">>, type |-> "AND"],
      [text |-> <<"a", "l", "l">>, type |-> "ALL_"],
      [text |-> <<"a", "n", "y">>, type |-> "ANY_"],
      [text |-> <<"b", "e", "t", "w", "e", "e", "n">>, type |-> "BETWEEN"],
      [text |-> <<"i", "n">>, type |-> "IN"],
      [text |-> <<"l", "i", "k", "e">>, type |-> "LIKE"],
      [text |-> <<"o", "r">>, type |-> "OR"],
      [text |-> <<"s", "o", "m", "e">>, type |-> "SOME"],
      [text |-> <<" ", "n", "a", "m", "e">>, type |-> "NON_KEYWORD"] }

\* text_to_name_token.get(s, NameTokenType.NON_KEYWORD)
text_to_name_token(s) ==
    IF \E kw \in NameKeywords : kw.text = s
    THEN (CHOOSE kw \in NameKeywords : kw.text = s).type
    ELSE "NON_KEYWORD"

\* PunctuationTokenType, as text_to_punctuation_token lists it
PunctuationKinds ==
    { [text |-> <<".">>, type |-> "DOT"],
      [text |-> <<":", ":">>, type |-> "DOUBLE_COLON"],
      [text |-> <<"~">>, type |-> "BIT_NOT"],
      [text |-> <<"<", "<">>, type |-> "LEFT_SHIFT"],
      [text |-> <<">", ">">>, type |-> "RIGHT_SHIFT"],
      [text |-> <<"*">>, type |-> "MULTIPLY"],
      [text |-> <<"/">>, type |-> "DIVIDE"],
      [text |-> <<"%">>, type |-> "MOD"],
      [text |-> <<"+">>, type |-> "PLUS"],
      [text |-> <<"-">>, type |-> "MINUS"],
      [text |-> <<"&">>, type |-> "BIT_AND"],
      [text |-> <<"|">>, type |-> "BIT_OR"],
      [text |-> <<"^">>, type |-> "BIT_XOR"],
      [text |-> <<"=">>, type |-> "EQUAL"],
      [text |-> <<"<">>, type |-> "LESS_THAN"],
      [text |-> <<">">>, type |-> "GREATER_THAN"],
      [text |-> <<"<", "=">>, type |-> "LESS_THAN_OR_EQUAL"],
      [text |-> <<">", "=">>, type |-> "GREATER_THAN_OR_EQUAL"],
      [text |-> <<"!", "=">>, type |-> "NOT_EQUAL"],
      [text |-> <<";">>, type |-> "SEMICOLON"],
      [text |-> <<"(">>, type |-> "LEFT_PAREN"],
      [text |-> <<")">>, type |-> "RIGHT_PAREN"],
      [text |-> <<"[">>, type |-> "LEFT_BRACKET"],
      [text |-> <<"]">>, type |-> "RIGHT_BRACKET"],
      [text |-> <<",">>, type |-> "COMMA"],
      [text |-> <<"\n">>, type |-> "NEWLINE"],
      [text |-> <<" ", "u", "n", "k", "n", "o", "w", "n">>,
       type |-> "UNKNOWN_OPERATOR"] }

\* text_to_punctuation_token.get(s, PunctuationTokenType.UNKNOWN_OPERATOR)
text_to_punctuation_token(s) ==
    IF \E k \in PunctuationKinds : k.text = s
    THEN (CHOOSE k \in PunctuationKinds : k.text = s).type
    ELSE "UNKNOWN_OPERATOR"

\* the keys of text_to_non_operators
NonOperatorChars == {";", "(", ")", "[", "]", ",", "\n"}

\* text_to_non_operators[c]
text_to_non_operators(c) == text_to_punctuation_token(<<c>>)

\* the keys of operator_to_precedence (both enums; no two members share a name)
PrecedenceKeys ==
    {"DOT", "DOUBLE_COLON", "LEFT_SHIFT", "RIGHT_SHIFT", "MULTIPLY", "DIVIDE",
     "MOD", "PLUS", "MINUS", "BIT_AND", "BIT_OR", "BIT_XOR", "EQUAL",
     "LESS_THAN", "GREATER_THAN", "LESS_THAN_OR_EQUAL",
     "GREATER_THAN_OR_EQUAL", "NOT_EQUAL", "IS", "IN", "LIKE", "AND", "OR",
     "COMMA"}

\* operator_to_precedence[type], for type among its keys
operator_to_precedence(type) ==
    CASE type = "DOT" -> 1
      [] type = "DOUBLE_COLON" -> 2
      [] type \in {"LEFT_SHIFT", "RIGHT_SHIFT"} -> 4
      [] type \in {"MULTIPLY", "DIVIDE", "MOD"} -> 5
      [] type \in {"PLUS", "MINUS", "BIT_AND", "BIT_OR", "BIT_XOR"} -> 6
      [] type \in {"EQUAL", "LESS_THAN", "GREATER_THAN", "LESS_THAN_OR_EQUAL",
                   "GREATER_THAN_OR_EQUAL", "NOT_EQUAL", "IS", "IN", "LIKE"} -> 7
      [] type = "AND" -> 9
      [] type = "OR" -> 10
      [] type = "COMMA" -> 100

comma_precedence == operator_to_precedence("COMMA")

-----------------------------------------------------------------------------
(* tokenizer.py: Tokenizer._search_next and the scans it is made of.       *)

\* the first position >= p whose character is not in S (len(text) if none):
\* the `while position < len(text) and ...: position += 1` loops
RECURSIVE ScanWhile(_, _, _)
ScanWhile(txt, p, S) ==
    IF p < Len(txt) /\ At(txt, p) \in S THEN ScanWhile(txt, p + 1, S) ELSE p

\* whitespace that is skipped: isspace() and not "\n"
SkippedSpace == {" ", "\t", "\r", "\f"}

\* re.compile(r'(\\q|[^q])*q').match(text, p).end(), or -1 for no match: the
\* backtracking matcher tries the escape, then any other character, then the
\* closing quote
RECURSIVE QuotedMatch(_, _, _)
QuotedMatch(txt, p, q) ==
    LET viaEscape ==
            IF p + 1 < Len(txt) /\ At(txt, p) = "\\" /\ At(txt, p + 1) = q
            THEN QuotedMatch(txt, p + 2, q) ELSE -1
        viaOther ==
            IF p < Len(txt) /\ At(txt, p) # q
            THEN QuotedMatch(txt, p + 1, q) ELSE -1
    IN  IF viaEscape # -1 THEN viaEscape
        ELSE IF viaOther # -1 THEN viaOther
        ELSE IF p < Len(txt) /\ At(txt, p) = q THEN p + 1
        ELSE -1

\* re.compile(r"\n").search(text, p).start(), or -1
NewlineSearch(txt, p) ==
    LET e == ScanWhile(txt, p, {At(txt, i) : i \in 0..Len(txt) - 1} \ {"\n"})
    IN  IF e < Len(txt) THEN e ELSE -1

\* re.compile(r"[\s\S]*?\*/").match(text, p).end(), or -1: the nearest "*/"
RECURSIVE BlockCommentMatch(_, _)
BlockCommentMatch(txt, p) ==
    IF p + 1 >= Len(txt) THEN -1
    ELSE IF At(txt, p) = "*" /\ At(txt, p + 1) = "/" THEN p + 2
    ELSE BlockCommentMatch(txt, p + 1)

\* the character class of re.compile(r"[!@#^&*-+=|<>/%.:]+"): in it `*-+` is
\* the range from "*" to "+", so "-" itself is not a member
OperatorChars ==
    {"!", "@", "#", "^", "&", "*", "+", "=", "|", "<", ">", "/", "%", ".", ":"}

\* operator.match(text, p).end(), or -1
OperatorMatch(txt, p) ==
    LET e == ScanWhile(txt, p, OperatorChars) IN IF e > p THEN e ELSE -1

\* SearchString, had a string that is not closed been given the length of
\* the text
SearchStringLengthOfText(txt, start, q, type) ==
    LET m == QuotedMatch(txt, start + 1, q)
    IN  IF m = -1
        THEN [token |-> SpecialToken(start, Len(txt), type, FALSE),
              position |-> Len(txt)]
        ELSE [token |-> SpecialToken(start, m - start, type, TRUE),
              position |-> m]

\* a quoted string opened at start by the quote q
SearchString(txt, start, q, type) ==
    LET m == QuotedMatch(txt, start + 1, q)
    IN  IF m = -1
        THEN [token |-> SpecialToken(start, Len(txt) - start, type, FALSE),
              position |-> Len(txt)]
        ELSE [token |-> SpecialToken(start, m - start, type, TRUE),
              position |-> m]

\* SearchLineComment, had it taken the newline that ends the comment with it
SearchLineCommentTakesNewline(txt, start) ==
    LET m == NewlineSearch(txt, start + 2)
    IN  IF m = -1
        THEN [token |-> SpecialToken(start, Len(txt) - start,
                                     "SINGLE_LINE_COMMENT", TRUE),
              position |-> Len(txt)]
        ELSE [token |-> SpecialToken(start, m - start,
                                     "SINGLE_LINE_COMMENT", TRUE),
              position |-> m + 1]

\* a "--" comment opened at start
SearchLineComment(txt, start) ==
    LET m == NewlineSearch(txt, start + 2)
    IN  IF m = -1
        THEN [token |-> SpecialToken(start, Len(txt) - start,
                                     "SINGLE_LINE_COMMENT", TRUE),
              position |-> Len(txt)]
        ELSE [token |-> SpecialToken(start, m - start,
                                     "SINGLE_LINE_COMMENT", TRUE),
              position |-> m]

\* a "/*" comment opened at start
SearchBlockComment(txt, start) ==
    LET m == BlockCommentMatch(txt, start + 2)
    IN  IF m = -1
        THEN [token |-> SpecialToken(start, Len(txt) - start,
                                     "MULTI_LINE_COMMENT", FALSE),
              position |-> Len(txt)]
        ELSE [token |-> SpecialToken(start, m - start,
                                     "MULTI_LINE_COMMENT", TRUE),
              position |-> m]

\* SearchPunctuation, had the kind of an operator been looked up with all
\* the text before it
SearchPunctuationFromZero(txt, start) ==
    IF At(txt, start) \in NonOperatorChars
    THEN [token |-> PunctuationToken(start, 1,
                                     text_to_non_operators(At(txt, start))),
          position |-> start + 1]
    ELSE LET m == OperatorMatch(txt, start)
         IN  IF m = -1
             THEN [token |-> PunctuationToken(start, 1, "UNKNOWN_OPERATOR"),
                   position |-> start + 1]
             ELSE [token |-> PunctuationToken(start, m - start,
                       text_to_punctuation_token(Slice(txt, 0, m))),
                   position |-> m]

\* the punctuation tokens: a non-operator character, else an operator run
SearchPunctuation(txt, start) ==
    IF At(txt, start) \in NonOperatorChars
    THEN [token |-> PunctuationToken(start, 1,
                                     text_to_non_operators(At(txt, start))),
          position |-> start + 1]
    ELSE LET m == OperatorMatch(txt, start)
         IN  IF m = -1
             THEN [token |-> PunctuationToken(start, 1, "UNKNOWN_OPERATOR"),
                   position |-> start + 1]
             ELSE [token |-> PunctuationToken(start, m - start,
                       text_to_punctuation_token(Slice(txt, start, m))),
                   position |-> m]

\* SearchEnd, had it stepped over the end of the text
SearchEndStepsOn(position) ==
    [token |-> SpecialToken(position, 0, "END_OF_STRING", TRUE),
     position |-> position + 1]

\* nothing is left at `position`: END_OF_STRING, and the position stays
SearchEnd(position) ==
    [token |-> SpecialToken(position, 0, "END_OF_STRING", TRUE),
     position |-> position]

\* Tokenizer._search_next(position): the next token and the position after it
_search_next(txt, position) ==
    LET start == ScanWhile(txt, position, SkippedSpace)
    IN  IF start >= Len(txt) THEN SearchEnd(start)
        ELSE IF isalpha(At(txt, start))
        THEN LET e == ScanWhile(txt, start + 1, Letters \cup Digits \cup {"_"})
             IN  [token |-> NameToken(start, e - start,
                      text_to_name_token(LowerText(Slice(txt, start, e)))),
                  position |-> e]
        ELSE IF At(txt, start) \in Digits
        THEN LET e == ScanWhile(txt, start + 1, Digits \cup {"."})
             IN  [token |-> NumberToken(start, e - start), position |-> e]
        ELSE IF At(txt, start) = "\""
        THEN SearchString(txt, start, "\"", "DOUBLE_QUOTE_STRING")
        ELSE IF At(txt, start) = "'"
        THEN SearchString(txt, start, "'", "SINGLE_QUOTE_STRING")
        ELSE IF start + 1 < Len(txt)
                /\ At(txt, start) = "-" /\ At(txt, start + 1) = "-"
        THEN SearchLineComment(txt, start)
        ELSE IF start + 1 < Len(txt)
                /\ At(txt, start) = "/" /\ At(txt, start + 1) = "*"
        THEN SearchBlockComment(txt, start)
        ELSE SearchPunctuation(txt, start)

-----------------------------------------------------------------------------
(* tokenizer.py: the Tokenizer object.                                     *)

\* Tokenizer.__init__(text, start_position)
NewTokenizer(start_position) ==
    [start_position |-> start_position, peek_queue |-> <<>>,
     end_idx_of_last_consumed_token |-> -1]

\* the end of consume(): `token` is returned, the position and the queue are
\* as given
Consumed(token, position, queue) ==
    [token |-> token,
     tk |-> [start_position |-> position, peek_queue |-> queue,
             end_idx_of_last_consumed_token |-> token.start + token.length]]

\* the else branch of consume(): s is what _search_next returned
ConsumedSearch(s, queue) == Consumed(s.token, s.position, queue)

\* consume(), had it left the token it returns at the head of the queue
consumeKeepsQueue(txt, tk) ==
    IF tk.peek_queue # <<>>
    THEN Consumed(Head(tk.peek_queue), TokenEnd(Head(tk.peek_queue)),
                  tk.peek_queue)
    ELSE ConsumedSearch(_search_next(txt, tk.start_position), tk.peek_queue)

\* Tokenizer.consume(): the token returned and the tokenizer afterwards
consume(txt, tk) ==
    IF tk.peek_queue # <<>>
    THEN Consumed(Head(tk.peek_queue), TokenEnd(Head(tk.peek_queue)),
                  Tail(tk.peek_queue))
    ELSE ConsumedSearch(_search_next(txt, tk.start_position), tk.peek_queue)

\* PeekPosition, had it not looked at the queue
PeekPositionFromStart(tk) == tk.start_position

\* the position peek() starts searching from
PeekPosition(tk) ==
    IF tk.peek_queue # <<>>
    THEN TokenEnd(tk.peek_queue[Len(tk.peek_queue)])
    ELSE tk.start_position

RECURSIVE PeekFill(_, _, _, _)

\* the body of peek's loop: s is what _search_next returned
PeekAppend(txt, queue, s, k) ==
    PeekFill(txt, Append(queue, s.token), s.position, k)

\* `while len(self.peek_queue) < k`: search and append
PeekFill(txt, queue, position, k) ==
    IF Len(queue) < k
    THEN PeekAppend(txt, queue, _search_next(txt, position), k)
    ELSE queue

\* the end of peek(k): the queue is filled
Peeked(tk, queue, k) ==
    [token |-> queue[k], tk |-> [tk EXCEPT !.peek_queue = queue]]

\* peek(k), had it moved the current position past the token it returns
peekAdvances(txt, tk, k) ==
    LET queue == PeekFill(txt, tk.peek_queue, PeekPosition(tk), k)
    IN  [token |-> queue[k],
         tk |-> [tk EXCEPT !.peek_queue = queue,
                           !.start_position = TokenEnd(queue[k])]]

\* Tokenizer.peek(k): the token returned and the tokenizer afterwards
peek(txt, tk, k) ==
    Peeked(tk, PeekFill(txt, tk.peek_queue, PeekPosition(tk), k), k)

-----------------------------------------------------------------------------
(* my_ast.py: the nodes of the AST.                                        *)

\* Python's None where a token is optional
None ==
    [tag |-> "None", type |-> "None", start |-> -1, length |-> 0,
     has_end_sequence |-> TRUE]

ValueExpression(token) == [kind |-> "ValueExpression", token |-> token]

ParenExpression(left_paren, expr, right_paren) ==
    [kind |-> "ParenExpression", left_paren |-> left_paren, expr |-> expr,
     right_paren |-> right_paren]

BinaryExpression(left, operator, right) ==
    [kind |-> "BinaryExpression", left |-> left, operator |-> operator,
     right |-> right]

PlaceholderExpression(placeholder_text) ==
    [kind |-> "PlaceholderExpression", placeholder_text |-> placeholder_text]

SelectField(expression, alias_name) ==
    [kind |-> "SelectField", expression |-> expression,
     alias_name |-> alias_name]

SelectClause(fields) == [kind |-> "SelectClause", fields |-> fields]

FromField(table_name, alias_name) ==
    [kind |-> "FromField", table_name |-> table_name,
     alias_name |-> alias_name]

FromClause(fields) == [kind |-> "FromClause", fields |-> fields]

WhereClause(expression) == [kind |-> "WhereClause", expression |-> expression]

UnknownSequence(start, length, first_token) ==
    [start |-> start, length |-> length, first_token |-> first_token]

\* Statement(start, length), the lists empty
Statement(start, length) ==
    [start |-> start, length |-> length, selects |-> <<>>, froms |-> <<>>,
     wheres |-> <<>>, comments |-> <<>>, unknowns |-> <<>>]

-----------------------------------------------------------------------------
(* parser.py.  A parser state p holds the Parser's tokenizer (tk), the     *)
(* comments list of the statement being parsed (parent_statement.comments) *)
(* and three history fields: nconsumed, the number of tokens other than    *)
(* END_OF_STRING consumed so far; stalled, set when a loop iteration       *)
(* neither left its loop nor consumed such a token (the code would then    *)
(* repeat that iteration for ever); raised, set when the code raises an    *)
(* exception that nothing catches.  The interpreter's call stack is taken  *)
(* to be deep enough for the nesting of the text.  An operator that takes  *)
(* the result of a call as a parameter is the code that follows the call.  *)

\* Parser.__init__(text, start_position), with a statement to hold comments
NewParser(start_position) ==
    [tk |-> NewTokenizer(start_position), comments |-> <<>>, nconsumed |-> 0,
     stalled |-> FALSE, raised |-> FALSE]

\* c is what self.tokenizer.consume() returned
PConsumed(p, c) ==
    [p EXCEPT !.tk = c.tk,
              !.nconsumed = IF c.token.type = "END_OF_STRING" THEN @ ELSE @ + 1]

\* self.tokenizer.consume(), its result unused
PConsume(txt, p) == PConsumed(p, consume(txt, p.tk))

\* c is what self.tokenizer.peek(k) returned
PPeeked(p, c) == [p |-> [p EXCEPT !.tk = c.tk], token |-> c.token]

\* token = self.tokenizer.peek(k)
PPeek(txt, p, k) == PPeeked(p, peek(txt, p.tk, k))

\* parent_statement.comments.append(token)
AddComment(p, token) == [p EXCEPT !.comments = Append(@, token)]

\* the end of a loop iteration that goes round again: p0 is the state the
\* iteration began in
Again(p0, p) == IF p.nconsumed > p0.nconsumed THEN p ELSE [p EXCEPT !.stalled = TRUE]

\* the parse has stopped short: every loop is left at once
Halted(p) == p.stalled \/ p.raised

IsPunctuation(token, type) == token.tag = "PunctuationToken" /\ token.type = type

IsName(token, type) == token.tag = "NameToken" /\ token.type = type

IsSpecial(token, type) == token.tag = "SpecialToken" /\ token.type = type

IsComment(token) ==
    IsSpecial(token, "SINGLE_LINE_COMMENT") \/ IsSpecial(token, "MULTI_LINE_COMMENT")

\* the `while` of consume_newline_semicolons: c is the parser and `token`
RECURSIVE consume_newline_semicolons_loop(_, _)
consume_newline_semicolons_loop(txt, c) ==
    IF Halted(c.p) THEN c
    ELSE IF IsPunctuation(c.token, "NEWLINE") \/ IsPunctuation(c.token, "SEMICOLON")
    THEN consume_newline_semicolons_loop(txt,
             PPeek(txt, Again(c.p, PConsume(txt, c.p)), 1))
    ELSE c

\* Parser.consume_newline_semicolons(): p and the token returned
consume_newline_semicolons(txt, p) ==
    consume_newline_semicolons_loop(txt, PPeek(txt, p, 1))

RECURSIVE get_next_standard_token_loop(_, _, _)

\* the comment has been consumed and kept: c is the parser and the next
\* `token`, and the loop goes round
NextAfterComment(txt, p0, c) ==
    get_next_standard_token_loop(txt, Again(p0, c.p), c.token)

\* CommentTest, had the comment been consumed and not kept
CommentTestDropsComment(txt, p0, p, token) ==
    IF IsComment(token)
    THEN NextAfterComment(txt, p0, PPeek(txt, PConsume(txt, p), 1))
    ELSE [p |-> p, token |-> token]

\* the second `if` of the loop: a comment is consumed and kept
CommentTest(txt, p0, p, token) ==
    IF IsComment(token)
    THEN NextAfterComment(txt, p0,
             PPeek(txt, AddComment(PConsume(txt, p), token), 1))
    ELSE [p |-> p, token |-> token]

\* NewlineTest, had one newline been enough to break the loop
NewlineTestBreaksOnOne(txt, p0, token, c2) ==
    [p |-> c2.p, token |-> token]

\* `token` is a newline and c2 is the parser and token2: two newlines break
\* the loop, a single one is consumed
NewlineTest(txt, p0, token, c2) ==
    IF IsPunctuation(c2.token, "NEWLINE") THEN [p |-> c2.p, token |-> token]
    ELSE CommentTest(txt, p0, PConsume(txt, c2.p), c2.token)

\* the `while True` of get_next_standard_token, entered with `token`
get_next_standard_token_loop(txt, p, token) ==
    IF Halted(p) THEN [p |-> p, token |-> token]
    ELSE IF IsPunctuation(token, "NEWLINE")
    THEN NewlineTest(txt, p, token, PPeek(txt, p, 2))
    ELSE CommentTest(txt, p, p, token)

\* c is the parser and the token of the first peek
NextStandardToken(txt, c) == get_next_standard_token_loop(txt, c.p, c.token)

\* Parser.get_next_standard_token(parent_statement): p and the token returned
get_next_standard_token(txt, p) == NextStandardToken(txt, PPeek(txt, p, 1))

RECURSIVE parse_expression(_, _, _)
RECURSIVE parse_expression_loop(_, _, _, _)
RECURSIVE parse_non_binary_expression(_, _)
RECURSIVE parse_non_binary_expression_loop(_, _, _)

\* BinopPrecedence, had a token that is no key of the table been given the
\* lowest precedence
BinopPrecedenceDefaultsLow(binop) ==
    IF binop.type \in PrecedenceKeys
    THEN operator_to_precedence(binop.type) ELSE 0

\* operator_to_precedence.get(binop.type, comma_precedence + 1)
BinopPrecedence(binop) ==
    IF binop.type \in PrecedenceKeys
    THEN operator_to_precedence(binop.type) ELSE comma_precedence + 1

\* RightOperand, had the loop gone round after a placeholder too
RightOperandClimbsOn(txt, p0, expression, binop, n, expression_precedence) ==
    parse_expression_loop(txt, Again(p0, n.p),
                          BinaryExpression(expression, binop, n.v),
                          expression_precedence)

\* the operator is consumed and n is the parser and next_expression
RightOperand(txt, p0, expression, binop, n, expression_precedence) ==
    IF n.v.kind = "PlaceholderExpression"
    THEN [p |-> n.p, v |-> BinaryExpression(expression, binop, n.v)]
    ELSE parse_expression_loop(txt, Again(p0, n.p),
                               BinaryExpression(expression, binop, n.v),
                               expression_precedence)

\* g is the parser and `binop`
BinaryOperator(txt, p0, expression, g, expression_precedence) ==
    IF ~(g.token.tag = "NameToken" \/ g.token.tag = "PunctuationToken")
    THEN [p |-> g.p, v |-> expression]
    ELSE IF BinopPrecedence(g.token) > expression_precedence
    THEN [p |-> g.p, v |-> expression]
    ELSE RightOperand(txt, p0, expression, g.token,
             parse_expression(txt, PConsume(txt, g.p),
                              BinopPrecedence(g.token) - 1),
             expression_precedence)

\* the `while True` of parse_expression, entered with `expression`
parse_expression_loop(txt, p, expression, expression_precedence) ==
    IF Halted(p) THEN [p |-> p, v |-> expression]
    ELSE BinaryOperator(txt, p, expression, get_next_standard_token(txt, p),
                        expression_precedence)

\* l is the parser and the expression parse_non_binary_expression returned
LeftOperand(txt, l, expression_precedence) ==
    IF l.v.kind = "PlaceholderExpression" THEN l
    ELSE parse_expression_loop(txt, l.p, l.v, expression_precedence)

\* Parser.parse_expression(parent_statement, expression_precedence)
parse_expression(txt, p, expression_precedence) ==
    LeftOperand(txt, parse_non_binary_expression(txt, p), expression_precedence)

\* RightParen, had the token found in the place of ")" been consumed
RightParenTakesAny(txt, token, expr, g) ==
    IF IsPunctuation(g.token, "RIGHT_PAREN")
    THEN [p |-> PConsume(txt, g.p), v |-> ParenExpression(token, expr, g.token)]
    ELSE [p |-> PConsume(txt, g.p), v |-> ParenExpression(token, expr, None)]

\* g is the parser and token2
RightParen(txt, token, expr, g) ==
    IF IsPunctuation(g.token, "RIGHT_PAREN")
    THEN [p |-> PConsume(txt, g.p), v |-> ParenExpression(token, expr, g.token)]
    ELSE [p |-> g.p, v |-> ParenExpression(token, expr, None)]

\* inner is the parser and the expression inside the parenthesis
InParen(txt, token, inner) ==
    RightParen(txt, token, inner.v, get_next_standard_token(txt, inner.p))

\* "(" has been peeked as `token`: consume it, parse the inner expression and
\* take the ")" if it is there
ParseParen(txt, p, token) ==
    InParen(txt, token, parse_expression(txt, PConsume(txt, p), comma_precedence))

\* the tokens that are consumed as a ValueExpression
IsValue(token) ==
    \/ IsName(token, "NON_KEYWORD")
    \/ token.tag = "NumberToken"
    \/ IsSpecial(token, "SINGLE_QUOTE_STRING")
    \/ IsSpecial(token, "DOUBLE_QUOTE_STRING")

\* the `while True` of parse_non_binary_expression; `token` is not fetched
\* again when a comment branch goes round the loop; UnknownTokenException
\* returns the placeholder
parse_non_binary_expression_loop(txt, p, token) ==
    IF Halted(p) THEN [p |-> p, v |-> PlaceholderExpression("1")]
    ELSE IF IsValue(token)
    THEN [p |-> PConsume(txt, p), v |-> ValueExpression(token)]
    ELSE IF IsPunctuation(token, "LEFT_PAREN") THEN ParseParen(txt, p, token)
    ELSE IF IsComment(token)
    THEN parse_non_binary_expression_loop(txt,
             Again(p, AddComment(PConsume(txt, p), token)), token)
    ELSE [p |-> p, v |-> PlaceholderExpression("1")]

\* g is the parser and the token get_next_standard_token returned
NonBinaryAt(txt, g) == parse_non_binary_expression_loop(txt, g.p, g.token)

\* Parser.parse_non_binary_expression(parent_statement)
parse_non_binary_expression(txt, p) ==
    NonBinaryAt(txt, get_next_standard_token(txt, p))

\* `token` can be an alias: a non-keyword name or a "double-quoted" string
IsAlias(token) == IsName(token, "NON_KEYWORD") \/ IsSpecial(token, "DOUBLE_QUOTE_STRING")

\* the alias is consumed: n is the parser and the token after it
AliasTaken(alias_name, n) ==
    [p |-> n.p, alias_name |-> alias_name, token |-> n.token]

\* a is the parser and the token after the optional AS
AliasName(txt, a) ==
    IF IsAlias(a.token)
    THEN AliasTaken(a.token, get_next_standard_token(txt, PConsume(txt, a.p)))
    ELSE [p |-> a.p, alias_name |-> None, token |-> a.token]

\* AliasAfterAs, had an AS been consumed only when an alias follows it
AliasAfterAsWithAlias(txt, g) ==
    AliasName(txt, IF IsName(g.token, "AS")
                      /\ IsAlias(get_next_standard_token(txt, PConsume(txt, g.p)).token)
                   THEN get_next_standard_token(txt, PConsume(txt, g.p))
                   ELSE g)

\* g is the parser and the token after the expression: an AS is consumed
AliasAfterAs(txt, g) ==
    AliasName(txt, IF IsName(g.token, "AS")
                   THEN get_next_standard_token(txt, PConsume(txt, g.p))
                   ELSE g)

\* what follows the expression of a SELECT or FROM field: an optional AS, an
\* optional alias, and the token after them.  p, the alias (or None) and
\* that token
ParseAlias(txt, p) == AliasAfterAs(txt, get_next_standard_token(txt, p))

\* parse_select and parse_from run the same loop, each with its own ceiling,
\* field class and clause class

\* FieldCeiling, had the commas been let into the expression of a field
FieldCeilingWithComma(clause) == comma_precedence

\* FieldCeiling, had a table been parsed under the ceiling of a SELECT field
FieldCeilingOfSelect(clause) == comma_precedence - 1

\* the ceiling of the expression of a field
FieldCeiling(clause) ==
    IF clause = "SelectClause" THEN comma_precedence - 1
    ELSE operator_to_precedence("DOT")

Field(clause, expression, alias_name) ==
    IF clause = "SelectClause" THEN SelectField(expression, alias_name)
    ELSE FromField(expression, alias_name)

Clause(clause, fields) ==
    IF clause = "SelectClause" THEN SelectClause(fields) ELSE FromClause(fields)

RECURSIVE parse_fields_loop(_, _, _, _)

\* FieldComma, had a comma that no expression follows ended the clause
FieldCommaEndsClause(txt, p0, fields, a, clause) ==
    IF IsPunctuation(a.token, "COMMA")
           /\ LET n == get_next_standard_token(txt, PConsume(txt, a.p)).token
              IN  IsValue(n) \/ IsPunctuation(n, "LEFT_PAREN")
    THEN parse_fields_loop(txt, Again(p0, PConsume(txt, a.p)), fields, clause)
    ELSE IF IsPunctuation(a.token, "COMMA")
    THEN [p |-> PConsume(txt, a.p), v |-> Clause(clause, fields)]
    ELSE [p |-> a.p, v |-> Clause(clause, fields)]

\* the field is appended; a is the parser and the token after the field: a
\* comma is consumed and the loop goes round, anything else breaks it
FieldComma(txt, p0, fields, a, clause) ==
    IF IsPunctuation(a.token, "COMMA")
    THEN parse_fields_loop(txt, Again(p0, PConsume(txt, a.p)), fields, clause)
    ELSE [p |-> a.p, v |-> Clause(clause, fields)]

\* a is the parser, the alias (or None) and the token after it
FieldAlias(txt, p0, fields, expression, a, clause) ==
    FieldComma(txt, p0, Append(fields, Field(clause, expression, a.alias_name)),
               a, clause)

\* e is the parser and the expression of the field
FieldExpression(txt, p0, fields, e, clause) ==
    FieldAlias(txt, p0, fields, e.v, ParseAlias(txt, e.p), clause)

\* the `while True` of parse_select and of parse_from, entered with
\* ret.fields = fields
parse_fields_loop(txt, p, fields, clause) ==
    IF Halted(p) THEN [p |-> p, v |-> Clause(clause, fields)]
    ELSE FieldExpression(txt, p, fields,
             parse_expression(txt, p, FieldCeiling(clause)), clause)

\* Parser.parse_select(parent_statement)
parse_select(txt, p) ==
    parse_fields_loop(txt, PConsume(txt, p), <<>>, "SelectClause")

\* Parser.parse_from(parent_statement)
parse_from(txt, p) ==
    parse_fields_loop(txt, PConsume(txt, p), <<>>, "FromClause")

\* e is the parser and the expression
Where(e) == [p |-> e.p, v |-> WhereClause(e.v)]

\* Parser.parse_where(parent_statement)
parse_where(txt, p) ==
    Where(parse_expression(txt, PConsume(txt, p), comma_precedence - 1))

\* Unknown, had every unknown token started an UnknownSequence
UnknownAlwaysStarts(p, stmt, token, prev_token_is_known) ==
    [p |-> p,
     v |-> [stmt EXCEPT !.unknowns =
               Append(@, UnknownSequence(token.start, token.length, token))]]

\* the `except UnknownTokenException` of parse_statement once the token is
\* consumed: it starts, or extends, an UnknownSequence
\* (ret.unknowns[-1] of an empty list raises IndexError)
Unknown(p, stmt, token, prev_token_is_known) ==
    IF prev_token_is_known
    THEN [p |-> p,
          v |-> [stmt EXCEPT !.unknowns =
                    Append(@, UnknownSequence(token.start, token.length, token))]]
    ELSE IF Len(stmt.unknowns) = 0 THEN [p |-> [p EXCEPT !.raised = TRUE], v |-> stmt]
    ELSE [p |-> p,
          v |-> [stmt EXCEPT !.unknowns[Len(stmt.unknowns)].length =
                    TokenEnd(token) - stmt.unknowns[Len(stmt.unknowns)].start]]

\* RecordUnknown, had it left the token in the tokenizer
RecordUnknownKeepsToken(txt, p, stmt, token, prev_token_is_known) ==
    Unknown(p, stmt, token, prev_token_is_known)

\* the `except UnknownTokenException` of parse_statement
RecordUnknown(txt, p, stmt, token, prev_token_is_known) ==
    Unknown(PConsume(txt, p), stmt, token, prev_token_is_known)

\* self.tokenizer.consume(), n times
RECURSIVE ConsumeTimes(_, _, _)
ConsumeTimes(txt, p, n) ==
    IF n = 0 THEN p ELSE ConsumeTimes(txt, PConsume(txt, p), n - 1)

\* the tokens parse_statement consumes when `token` ends the statement: the
\* semicolon, the two newlines, nothing at END_OF_STRING; -1 when `token`
\* does not end it
Boundary(token) ==
    IF IsPunctuation(token, "SEMICOLON") THEN 1
    ELSE IF IsPunctuation(token, "NEWLINE") THEN 2
    ELSE IF IsSpecial(token, "END_OF_STRING") THEN 0
    ELSE -1

\* EndStatement, had it taken the end of the last token for the length
EndStatementFromZero(txt, p, stmt, boundary) ==
    [p |-> ConsumeTimes(txt, p, boundary),
     v |-> [stmt EXCEPT !.length = p.tk.end_idx_of_last_consumed_token,
                        !.comments = p.comments]]

\* the statement is over: its length is set from the last token consumed,
\* then `boundary` tokens are consumed
EndStatement(txt, p, stmt, boundary) ==
    [p |-> ConsumeTimes(txt, p, boundary),
     v |-> [stmt EXCEPT !.length = p.tk.end_idx_of_last_consumed_token - stmt.start,
                        !.comments = p.comments]]

RECURSIVE parse_statement_loop(_, _, _, _)

\* KnownClause, had the clause taken the place of the list
KnownClauseKeepsLast(txt, p0, stmt, list, clause) ==
    parse_statement_loop(txt, Again(p0, clause.p),
                         [stmt EXCEPT ![list] = <<clause.v>>], TRUE)

\* `clause` is the parser and the clause parsed: it is appended to `list`
KnownClause(txt, p0, stmt, list, clause) ==
    parse_statement_loop(txt, Again(p0, clause.p),
                         [stmt EXCEPT ![list] = Append(@, clause.v)], TRUE)

\* UnknownToken, had the unknown token put an end to the statement
UnknownTokenEndsStatement(txt, p0, u) == EndStatement(txt, u.p, u.v, 0)

\* u is the parser and the statement once the unknown token is recorded
UnknownToken(txt, p0, u) == parse_statement_loop(txt, Again(p0, u.p), u.v, FALSE)

\* g is the parser and `token`
StatementToken(txt, p0, stmt, prev_token_is_known, g) ==
    IF IsName(g.token, "SELECT")
    THEN KnownClause(txt, p0, stmt, "selects", parse_select(txt, g.p))
    ELSE IF IsName(g.token, "FROM")
    THEN KnownClause(txt, p0, stmt, "froms", parse_from(txt, g.p))
    ELSE IF IsName(g.token, "WHERE")
    THEN KnownClause(txt, p0, stmt, "wheres", parse_where(txt, g.p))
    ELSE IF Boundary(g.token) # -1
    THEN EndStatement(txt, g.p, stmt, Boundary(g.token))
    ELSE UnknownToken(txt, p0,
             RecordUnknown(txt, g.p, stmt, g.token, prev_token_is_known))

\* the `while True` of parse_statement, entered with ret = stmt
parse_statement_loop(txt, p, stmt, prev_token_is_known) ==
    IF Halted(p) THEN [p |-> p, v |-> stmt]
    ELSE StatementToken(txt, p, stmt, prev_token_is_known,
                        get_next_standard_token(txt, p))

\* c is the parser and the token peeked: the statement starts there
\* StatementAt, had every statement started at the start of the text
StatementAtZero(txt, c) ==
    parse_statement_loop(txt, [c.p EXCEPT !.comments = <<>>],
                         Statement(0, c.token.length), TRUE)

StatementAt(txt, c) ==
    parse_statement_loop(txt, [c.p EXCEPT !.comments = <<>>],
                         Statement(c.token.start, c.token.length), TRUE)

\* Parser.parse_statement(): p and the Statement returned
parse_statement(txt, p) == StatementAt(txt, PPeek(txt, p, 1))

\* st is the parser and the statement parse_statement returned
StatementAppended(p0, r, st) ==
    [p |-> Again(p0, st.p), ret |-> Append(r, st.v), done |-> FALSE]

\* c is the parser and the token consume_newline_semicolons returned
StatementOrBreak(txt, p0, r, c) ==
    IF IsSpecial(c.token, "END_OF_STRING")
    THEN [p |-> c.p, ret |-> r, done |-> TRUE]
    ELSE StatementAppended(p0, r, parse_statement(txt, c.p))

\* one iteration of the `while True` of parse_all, entered with ret = r:
\* the loop is left (done) or a statement is appended
parse_all_iteration(txt, p, r) ==
    StatementOrBreak(txt, p, r, consume_newline_semicolons(txt, p))

RECURSIVE parse_all_loop(_, _, _)

\* i is what the iteration made
NextIteration(txt, i) ==
    IF i.done THEN [p |-> i.p, ret |-> i.ret]
    ELSE parse_all_loop(txt, i.p, i.ret)

parse_all_loop(txt, p, r) ==
    IF Halted(p) THEN [p |-> p, ret |-> r]
    ELSE NextIteration(txt, parse_all_iteration(txt, p, r))

\* Parser(text).parse_all(): the list returned
parse_all(txt) == parse_all_loop(txt, NewParser(0), <<>>).ret

-----------------------------------------------------------------------------
(* The tokenizer as an object: a caller that calls consume() and peek(k)   *)
(* in any order on a Tokenizer(text, start_offset).                        *)

\* the longest text of Spec
MaxLen == 3

\* the largest k of a peek(k)
MaxPeek == 3

\* the number of consume() calls a caller makes
MaxConsumes == 5

\* the longest text of LexSpec
MaxLexLen == 4

\* the characters the texts of Spec are written in
TokChars == {"a", " ", "\n"}

\* the characters the texts of LexSpec are written in
LexChars == {"a", "1", "_", " ", "\n", "'", "\\", "-", "/", "*", ";"}

\* all texts of at most n characters of S
TextsUpTo(S, n) == UNION {[1..m -> S] : m \in 0..n}

IsEOS(token) == IsSpecial(token, "END_OF_STRING")

\* consume() has returned END_OF_STRING
AtEnd == \E i \in 1..Len(consumed) : IsEOS(consumed[i])

\* the variables of the parser's caller, unused here
NoParser == pc = "tokenizer" /\ ret = <<>> /\ stalled = FALSE /\ raised = FALSE

Init ==
    /\ text \in TextsUpTo(TokChars, MaxLen)
    /\ input = [family |-> "characters"]
    /\ start_offset \in 0..Len(text)
    /\ tokenizer = NewTokenizer(start_offset)
    /\ consumed = <<>>
    /\ peeked = {}
    /\ last = [op |-> "init", k |-> 0, token |-> None, promised |-> {}]
    /\ NoParser

\* the parts of a text with sep between them
RECURSIVE Join(_, _)
Join(parts, sep) ==
    IF Len(parts) = 0 THEN <<>>
    ELSE IF Len(parts) = 1 THEN parts[1]
    ELSE parts[1] \o sep \o Join(Tail(parts), sep)

\* the binary operators of operator_to_precedence, the comma apart, as they
\* are written
TableOperators ==
    {k \in NameKeywords \cup PunctuationKinds : k.type \in PrecedenceKeys \ {"COMMA"}}

\* 4++4
TextPlusPlus == <<"4", "+", "+", "4">>

\* <--
TextArrow == <<"<", "-", "-">>

\* how a text of LexSpec can be written: character by character, or as an
\* operator of the table between two names, with spaces or without (the
\* operators that are words need the spaces)
LexInputs ==
    {[family |-> "characters", parts |-> <<t>>, sep |-> <<>>] :
        t \in TextsUpTo(LexChars, MaxLexLen)}
    \cup {[family |-> "operator", parts |-> <<(<<"a">>), op.text, (<<"b">>)>>,
           sep |-> <<" ">>] : op \in TableOperators}
    \cup {[family |-> "operator", parts |-> <<(<<"a">>), op.text, (<<"b">>)>>,
           sep |-> <<>>] : op \in TableOperators \cap PunctuationKinds}
    \cup {[family |-> "examples", parts |-> <<e>>, sep |-> <<>>] :
           e \in {TextPlusPlus, TextArrow}}

LexInit ==
    /\ input \in LexInputs
    /\ text = Join(input.parts, input.sep)
    /\ start_offset = 0
    /\ tokenizer = NewTokenizer(start_offset)
    /\ consumed = <<>>
    /\ peeked = {}
    /\ last = [op |-> "init", k |-> 0, token |-> None, promised |-> {}]
    /\ NoParser

\* the promise peeked holds for the j-th consume() from now, if any
Promised(j) == {e \in peeked : e[1] = j}

\* the caller calls consume()
Consume ==
    LET c == consume(text, tokenizer)
    IN  /\ pc = "tokenizer"
        /\ tokenizer' = c.tk
        /\ consumed' = Append(consumed, c.token)
        /\ peeked' = {<<e[1] - 1, e[2], e[3]>> : e \in peeked \ Promised(1)}
        /\ last' = [op |-> "consume", k |-> 0, token |-> c.token,
                    promised |-> {<<e[2], e[3]>> : e \in Promised(1)}]
        /\ UNCHANGED <<text, start_offset, input, pc, ret, stalled, raised>>

\* the caller calls peek(k)
Peek(k) ==
    LET c == peek(text, tokenizer, k)
        kmax == IF \E e \in Promised(k) : e[2] > k
                THEN (CHOOSE e \in Promised(k) : TRUE)[2] ELSE k
    IN  /\ pc = "tokenizer"
        /\ tokenizer' = c.tk
        /\ peeked' = (peeked \ Promised(k)) \cup {<<k, kmax, c.token>>}
        /\ last' = [op |-> "peek", k |-> k, token |-> c.token,
                    promised |-> {<<e[2], e[3]>> : e \in Promised(k)}]
        /\ UNCHANGED <<text, start_offset, input, consumed, pc, ret, stalled, raised>>

Next ==
    \/ Len(consumed) < MaxConsumes /\ Consume
    \/ \E k \in 1..MaxPeek : Peek(k)

Spec == Init /\ [][Next]_vars

\* a caller that only consumes, up to END_OF_STRING
LexNext == ~AtEnd /\ Consume

LexSpec == LexInit /\ [][LexNext]_vars

-----------------------------------------------------------------------------
(* The tokenizer as an object: what holds of it.                           *)

\* the first n tokens a Tokenizer that is never peeked returns
RECURSIVE ConsumeOnly(_, _, _)
ConsumeOnly(txt, tk, n) ==
    IF n = 0 THEN <<>>
    ELSE LET c == consume(txt, tk) IN <<c.token>> \o ConsumeOnly(txt, c.tk, n - 1)

IsPrefix(a, b) == Len(a) <= Len(b) /\ SubSeq(b, 1, Len(a)) = a

\* C3: the token a peek(k) returned is the token the k-th consume() after it
\* returns, and the token every peek made in between returns for that same
\* consume(); so peek(1) and the consume() right after it agree
C3_PeekIsKthConsume == \A e \in last.promised : e[2] = last.token

\* a consume() has returned the token a peek(k), k >= 2, had returned k - 1
\* consumes earlier
C3_Witness ==
    /\ last.op = "consume"
    /\ ~IsEOS(last.token)
    /\ \E e \in last.promised : e[1] >= 2 /\ e[2] = last.token

\* C4: the tokens consume() returns are those a Tokenizer on the same text
\* and start offset returns when it is never peeked
C4_ConsumeIgnoresPeeks ==
    consumed = ConsumeOnly(text, NewTokenizer(start_offset), Len(consumed))

\* three tokens consumed, with peeks made before the last of them and
\* lookahead still queued
C4_Witness ==
    /\ Len(consumed) = 3
    /\ ~IsEOS(consumed[2])
    /\ last.op = "consume"
    /\ last.promised # {}
    /\ tokenizer.peek_queue # <<>>

\* C5: a peek(k) leaves start_position and end_idx_of_last_consumed_token as
\* they were and only appends to the peek queue, and a peek(k) made again
\* with no consume() in between returns the same token
C5_PeekOnlyAppends ==
    [][consumed' = consumed =>
          /\ tokenizer'.start_position = tokenizer.start_position
          /\ tokenizer'.end_idx_of_last_consumed_token
                 = tokenizer.end_idx_of_last_consumed_token
          /\ IsPrefix(tokenizer.peek_queue, tokenizer'.peek_queue)
          /\ \A e \in last'.promised : e[1] = last'.k => e[2] = last'.token]_vars

\* a peek(k), k >= 2, made a second time after a consume() and with no
\* consume() in between
C5_Witness ==
    /\ last.op = "peek"
    /\ last.k >= 2
    /\ consumed # <<>>
    /\ \E e \in last.promised : e[1] = last.k

\* C6: once consume() has returned END_OF_STRING, every consume() and every
\* peek(k) returns an END_OF_STRING token of length 0 at len(text)
C6_EndOfStringRepeats ==
    LET before == IF last.op = "consume" THEN Len(consumed) - 1 ELSE Len(consumed)
    IN  (\E i \in 1..before : IsEOS(consumed[i]))
            => last.token = SpecialToken(Len(text), 0, "END_OF_STRING", TRUE)

\* END_OF_STRING consumed twice, then a peek(2), on a text that is not empty
C6_Witness ==
    /\ text # <<>>
    /\ Len(consumed) >= 2
    /\ IsEOS(consumed[Len(consumed) - 1])
    /\ last.op = "peek"
    /\ last.k = 2

-----------------------------------------------------------------------------
(* The tokens of a whole text (LexSpec).                                   *)
\* where the gap before the i-th token consumed begins
GapStart(i) == IF i = 1 THEN start_offset ELSE TokenEnd(consumed[i - 1])

\* the gaps and the texts of the first i tokens consumed, one after the other
RECURSIVE Rebuild(_)
Rebuild(i) ==
    IF i = 0 THEN <<>>
    ELSE Rebuild(i - 1)
         \o Slice(text, GapStart(i), consumed[i].start)
         \o Slice(text, consumed[i].start, TokenEnd(consumed[i]))

\* C7: the tokens consumed from offset 0 lie in the text in increasing order
\* without overlap, each gap before a token holds only whitespace that is not
\* a newline, and once END_OF_STRING is consumed the gaps and token texts, in
\* order, are the text
C7_LosslessLexing ==
    /\ \A i \in 1..Len(consumed) :
          /\ GapStart(i) <= consumed[i].start
          /\ TokenEnd(consumed[i]) <= Len(text)
          /\ i > 1 => consumed[i - 1].start < consumed[i].start
          /\ \A q \in GapStart(i)..(consumed[i].start - 1) :
                isspace(At(text, q)) /\ At(text, q) # "\n"
    /\ AtEnd => Rebuild(Len(consumed)) = text

\* a text lexed to its end: a comment, the newline after it, a gap
C7_Witness ==
    /\ AtEnd
    /\ Len(consumed) = 3
    /\ IsComment(consumed[1])
    /\ IsPunctuation(consumed[2], "NEWLINE")
    /\ consumed[3].start > TokenEnd(consumed[2])


-----------------------------------------------------------------------------
(* The parser's caller: Parser(text).parse_all(), one iteration of its     *)
(* loop at a time, or one call of parse_expression on a fresh Parser.      *)
(* Texts are written from parts joined by a separator.                     *)

\* the most words in a text of the "words" family
MaxWords == 3

\* the most clauses in a text of the "clauses" family
MaxClauses == 3

\* the longest text of the "characters" family
MaxChars == 3

\* the most words in a text of the "expressions" family
MaxExprWords == 4

\* the most parts in a text of the "recovery" family
MaxParts == 3

\* the words of the "words" family
ParserWords ==
    { <<"s", "e", "l", "e", "c", "t">>,
      <<"f", "r", "o", "m">>,
      <<"a", "s">>,
      <<"a">>,
      <<";">>,
      <<"\n">>,
      <<",">>,
      <<"(">>,
      <<")">>,
      <<"/", "*", "c", "*", "/">> }

\* the clauses of the "clauses" family
Clauses ==
    { <<"s", "e", "l", "e", "c", "t", " ", "a">>,
      <<"s", "e", "l", "e", "c", "t", " ", "b">>,
      <<"s", "e", "l", "e", "c", "t", " ", "a", ",", " ", "b", " ", "a", "s", " ", "c">>,
      <<"f", "r", "o", "m", " ", "t">>,
      <<"w", "h", "e", "r", "e", " ", "a", " ", "=", " ", "b">> }

\* the words of the "expressions" family
ExprWords == { <<"a">>, <<"(">>, <<")">>, <<",">>, <<"+">>, <<"*">> }

\* the tokens of the "recovery" family that no clause takes and that do not
\* end a statement: an unknown operator and a number, a right parenthesis,
\* and two of them with a comment and a single newline in between
Garbage ==
    { <<"@", "@", "@", " ", "2">>,
      <<")">>,
      <<"@", " ", "/", "*", "c", "*", "/", "\n", "2">> }

\* the clauses of the "recovery" family
RecoveryClauses ==
    { <<"s", "e", "l", "e", "c", "t", " ", "a">>,
      <<"f", "r", "o", "m", " ", "t">>,
      <<"w", "h", "e", "r", "e", " ", "a", " ", "=", " ", "b">> }

\* the characters of the "characters" family
ParserChars == {"a", "1", " ", "\n", ";", "'", "-"}

\* select a, a blank line, select b
TextBlankLine ==
    <<"s", "e", "l", "e", "c", "t", " ", "a", "\n", "\n", "s", "e", "l", "e",
      "c", "t", " ", "b">>

\* select a; select b;
TextSemicolons ==
    <<"s", "e", "l", "e", "c", "t", " ", "a", ";", " ", "s", "e", "l", "e",
      "c", "t", " ", "b", ";">>

\* select a, a newline, select b
TextNewline ==
    <<"s", "e", "l", "e", "c", "t", " ", "a", "\n", "s", "e", "l", "e", "c",
      "t", " ", "b">>

\* select 1 @@@ 2
TextUnknownRun ==
    <<"s", "e", "l", "e", "c", "t", " ", "1", " ", "@", "@", "@", " ", "2">>

\* a + b * c
TextSumProduct ==
    <<"a", " ", "+", " ", "b", " ", "*", " ", "c">>

\* a * b + c
TextProductSum ==
    <<"a", " ", "*", " ", "b", " ", "+", " ", "c">>

\* a < b and c < d
TextComparisons ==
    <<"a", " ", "<", " ", "b", " ", "a", "n", "d", " ", "c", " ", "<", " ",
      "d">>

\* select a / from t / / / ;select b;; / select c  (a newline at each /)
TextBoundaries ==
    <<"s", "e", "l", "e", "c", "t", " ", "a", "\n", "f", "r", "o", "m", " ",
      "t", "\n", "\n", "\n", ";", "s", "e", "l", "e", "c", "t", " ", "b", ";",
      ";", "\n", "s", "e", "l", "e", "c", "t", " ", "c">>

\* from t select a
TextFromSelect ==
    <<"f", "r", "o", "m", " ", "t", " ", "s", "e", "l", "e", "c", "t", " ",
      "a">>

\* select a from t
TextSelectFrom ==
    <<"s", "e", "l", "e", "c", "t", " ", "a", " ", "f", "r", "o", "m", " ",
      "t">>

\* a + b * + c
TextPlaceholderInside ==
    <<"a", " ", "+", " ", "b", " ", "*", " ", "+", " ", "c">>

\* (a + b, c, d)
TextCommasInParen ==
    <<"(", "a", " ", "+", " ", "b", ",", " ", "c", ",", " ", "d", ")">>

\* from (a + b) x
TextFromParen ==
    <<"f", "r", "o", "m", " ", "(", "a", " ", "+", " ", "b", ")", " ", "x">>

\* from a.b.c d, e
TextFromDots ==
    <<"f", "r", "o", "m", " ", "a", ".", "b", ".", "c", " ", "d", ",", " ",
      "e">>

\* from a + b
TextFromSum ==
    <<"f", "r", "o", "m", " ", "a", " ", "+", " ", "b">>

\* select 'abc
TextOpenString ==
    <<"s", "e", "l", "e", "c", "t", " ", "'", "a", "b", "c">>

\* the texts of the "examples" family
Examples ==
    {<<>>, TextBlankLine, TextSemicolons, TextNewline, TextUnknownRun,
     TextSumProduct, TextProductSum, TextComparisons, TextBoundaries,
     TextPlaceholderInside, TextCommasInParen, TextFromParen, TextFromDots,
     TextFromSum, TextOpenString}

\* how a text can be written
ParserInputs ==
    {[family |-> "words", parts |-> ws, sep |-> <<" ">>] :
        ws \in TextsUpTo(ParserWords, MaxWords)}
    \cup {[family |-> "clauses", parts |-> cs, sep |-> sp] :
        cs \in TextsUpTo(Clauses, MaxClauses) \ {<<>>}, sp \in {<<" ">>, <<"\n">>}}
    \cup {[family |-> "operators",
           parts |-> <<(<<"a">>), op1.text, (<<"b">>), op2.text, (<<"c">>)>>,
           sep |-> <<" ">>] : op1 \in TableOperators, op2 \in TableOperators}
    \cup {[family |-> "chains",
           parts |-> <<(<<"a">>), op.text, (<<"b">>), op.text, (<<"c">>),
                       op.text, (<<"d">>)>>,
           sep |-> <<" ">>] : op \in TableOperators}
    \cup {[family |-> "expressions", parts |-> ws, sep |-> <<" ">>] :
        ws \in TextsUpTo(ExprWords, MaxExprWords)}
    \cup {[family |-> "recovery", parts |-> ps, sep |-> <<" ">>] :
        ps \in TextsUpTo(RecoveryClauses \cup Garbage, MaxParts)}
    \cup {[family |-> "examples", parts |-> <<e>>, sep |-> <<>>] : e \in Examples}
    \cup {[family |-> "characters", parts |-> <<t>>, sep |-> <<>>] :
        t \in TextsUpTo(ParserChars, MaxChars)}

\* the ceilings parse_expression is called with: that of parse_from, that of
\* parse_select and parse_where, that of a parenthesis
Ceilings == {operator_to_precedence("DOT"), comma_precedence - 1, comma_precedence}

ParserInit ==
    /\ input \in ParserInputs
    /\ text = Join(input.parts, input.sep)
    /\ start_offset = 0
    /\ tokenizer = NewTokenizer(start_offset)
    /\ consumed = <<>>
    /\ peeked = {}
    /\ last = [op |-> "init", k |-> 0, token |-> None, promised |-> {}]
    /\ pc = "start"
    /\ ret = <<>>
    /\ stalled = FALSE
    /\ raised = FALSE

\* the Parser at this point of parse_all
ThisParser ==
    [tk |-> tokenizer, comments |-> <<>>, nconsumed |-> 0, stalled |-> FALSE,
     raised |-> FALSE]

\* parse_all is called: ret = []
ParseAllBegin ==
    /\ pc = "start"
    /\ pc' = "parse_all"
    /\ ret' = <<>>
    /\ UNCHANGED <<text, tokenizer, consumed, peeked, last, start_offset, input,
                   stalled, raised>>

\* i is what the iteration made
Iterated(i) ==
    /\ tokenizer' = i.p.tk
    /\ ret' = i.ret
    /\ stalled' = i.p.stalled
    /\ raised' = i.p.raised
    /\ pc' = IF i.p.raised THEN "raised"
             ELSE IF i.p.stalled THEN "diverged"
             ELSE IF i.done THEN "returned" ELSE "parse_all"

\* one iteration of parse_all's loop: a statement is appended, or the loop
\* breaks and parse_all returns
ParseAllIteration ==
    /\ pc = "parse_all"
    /\ \E i \in {parse_all_iteration(text, ThisParser, ret)} : Iterated(i)
    /\ UNCHANGED <<text, consumed, peeked, last, start_offset, input>>

\* e is the parser and the expression parse_expression returned
Returned(e, ceiling) ==
    /\ tokenizer' = e.p.tk
    /\ ret' = [expression |-> e.v, expression_precedence |-> ceiling,
               comments |-> e.p.comments]
    /\ stalled' = e.p.stalled
    /\ raised' = e.p.raised
    /\ pc' = IF e.p.raised THEN "raised"
             ELSE IF e.p.stalled THEN "diverged" ELSE "expression"

\* parse_expression(statement, ceiling) is called on the fresh Parser
CallParseExpression(ceiling) ==
    /\ pc = "start"
    /\ \E e \in {parse_expression(text, ThisParser, ceiling)} :
            Returned(e, ceiling)
    /\ UNCHANGED <<text, consumed, peeked, last, start_offset, input>>

ParserNext ==
    \/ ParseAllBegin
    \/ ParseAllIteration
    \/ \E ceiling \in Ceilings : CallParseExpression(ceiling)

ParserSpec == ParserInit /\ [][ParserNext]_vars

-----------------------------------------------------------------------------
(* parse_all: it returns, and the statements lie in the text (ParserSpec).  *)

\* the tokens of txt as consume() alone returns them, END_OF_STRING included
RECURSIVE TokensFrom(_, _)
TokensFrom(txt, tk) ==
    LET c == consume(txt, tk)
    IN  IF IsEOS(c.token) THEN <<c.token>>
        ELSE <<c.token>> \o TokensFrom(txt, c.tk)

TokensOf(txt) == TokensFrom(txt, NewTokenizer(0))

TokensLeft == Len(TokensFrom(text, tokenizer)) - 1

\* C2: parse_all terminates: no iteration of a loop of the parser goes round
\* without having consumed a token other than END_OF_STRING, so each
\* iteration of parse_all's loop either returns or moves the end of the last
\* token consumed forward in the text, and parse_all returns with
\* END_OF_STRING reached
C2_ParseAllTerminates ==
    /\ [](~stalled /\ pc # "diverged")
    /\ [](tokenizer.end_idx_of_last_consumed_token <= Len(text))
    /\ [](pc = "returned" => TokensLeft = 0)
    /\ [][pc = "parse_all" =>
            \/ pc' = "returned"
            \/ /\ pc' = "parse_all"
               /\ tokenizer'.end_idx_of_last_consumed_token
                      > tokenizer.end_idx_of_last_consumed_token]_vars

\* parse_all has returned after the loops of parse_statement and parse_select
\* went round: a statement holds a clause and an unknown run
C2_Witness ==
    /\ pc = "returned"
    /\ \E i \in 1..Len(ret) :
        /\ ret[i].selects # <<>>
        /\ ret[i].unknowns # <<>>
        /\ ret[i].unknowns[1].length > ret[i].unknowns[1].first_token.length

-----------------------------------------------------------------------------
(* parse_all: where a statement ends.                                      *)

IsBoundaryToken(token) ==
    IsPunctuation(token, "SEMICOLON") \/ IsPunctuation(token, "NEWLINE")

\* the spans the boundary rule gives, read off the token stream from its
\* i-th token on: start is the start of the statement under way, -1 between
\* statements.  A statement starts at the first token that is no semicolon
\* and no newline; it ends before a semicolon, before two newlines in a row
\* and at END_OF_STRING, with the token before
RECURSIVE SpansFrom(_, _, _)
SpansFrom(toks, i, start) ==
    LET t == toks[i]
        span == [start |-> start, length |-> TokenEnd(toks[i - 1]) - start]
    IN  IF start = -1
        THEN IF IsEOS(t) THEN <<>>
             ELSE IF IsBoundaryToken(t) THEN SpansFrom(toks, i + 1, -1)
             ELSE SpansFrom(toks, i + 1, t.start)
        ELSE IF IsEOS(t) THEN <<span>>
        ELSE IF IsPunctuation(t, "SEMICOLON")
        THEN <<span>> \o SpansFrom(toks, i + 1, -1)
        ELSE IF IsPunctuation(t, "NEWLINE") /\ IsPunctuation(toks[i + 1], "NEWLINE")
        THEN <<span>> \o SpansFrom(toks, i + 2, -1)
        ELSE SpansFrom(toks, i + 1, start)

\* the spans of the statements of a list
SpansOf(statements) ==
    [i \in 1..Len(statements) |->
        [start |-> statements[i].start, length |-> statements[i].length]]

\* C8: parse_all ends a statement at a semicolon, at two newline tokens in a
\* row and at the end of the text, and nowhere else; newlines and semicolons
\* before a statement make no statement, and the semicolon or the two
\* newlines are consumed before the next statement starts.  The four texts
\* of the claim give 2, 2, 1 and 0 statements
C8_StatementBoundaries ==
    /\ pc \in {"parse_all", "returned"} =>
        IsPrefix(SpansOf(ret), SpansFrom(TokensOf(text), 1, -1))
    /\ pc = "returned" =>
        /\ SpansOf(ret) = SpansFrom(TokensOf(text), 1, -1)
        /\ text = TextBlankLine => Len(ret) = 2
        /\ text = TextSemicolons => Len(ret) = 2
        /\ text = TextNewline => Len(ret) = 1
        /\ text = <<>> => Len(ret) = 0

\* a text with single newlines, three newlines in a row and semicolons has
\* been split in three
C8_Witness ==
    /\ pc = "returned"
    /\ text = TextBoundaries
    /\ Len(ret) = 3
    /\ Len(ret[1].selects) = 1 /\ Len(ret[1].froms) = 1
    /\ Len(ret[2].selects) = 1
    /\ Len(ret[3].selects) = 1

-----------------------------------------------------------------------------
(* parse_statement: clauses in any order, any number of times.             *)

\* the characters of a token (nothing for None)
TokenText(txt, token) ==
    IF token = None THEN <<>> ELSE Slice(txt, token.start, TokenEnd(token))

\* an expression as it is written: each token replaced by its characters
RECURSIVE Written(_, _)
Written(txt, e) ==
    CASE e.kind = "ValueExpression" ->
            [kind |-> e.kind, token |-> TokenText(txt, e.token)]
      [] e.kind = "ParenExpression" ->
            [kind |-> e.kind, expr |-> Written(txt, e.expr),
             closed |-> e.right_paren # None]
      [] e.kind = "BinaryExpression" ->
            [kind |-> e.kind, left |-> Written(txt, e.left),
             operator |-> TokenText(txt, e.operator),
             right |-> Written(txt, e.right)]
      [] e.kind = "PlaceholderExpression" -> [kind |-> e.kind]

\* a clause as it is written
WrittenClause(txt, clause) ==
    CASE clause.kind = "SelectClause" ->
            [i \in 1..Len(clause.fields) |->
                [expression |-> Written(txt, clause.fields[i].expression),
                 alias_name |-> TokenText(txt, clause.fields[i].alias_name)]]
      [] clause.kind = "FromClause" ->
            [i \in 1..Len(clause.fields) |->
                [expression |-> Written(txt, clause.fields[i].table_name),
                 alias_name |-> TokenText(txt, clause.fields[i].alias_name)]]
      [] clause.kind = "WhereClause" ->
            <<[expression |-> Written(txt, clause.expression),
               alias_name |-> <<>>]>>

\* one of the three lists of a statement, as written
WrittenList(txt, statement, list) ==
    [i \in 1..Len(statement[list]) |-> WrittenClause(txt, statement[list][i])]

ClauseLists == {"selects", "froms", "wheres"}

\* the list the keyword of a clause of the "clauses" family belongs to
ListOf(clause) ==
    IF clause[1] = "s" THEN "selects"
    ELSE IF clause[1] = "f" THEN "froms" ELSE "wheres"

\* a clause of the "clauses" family parsed alone, as written
Alone(clause) ==
    WrittenList(clause, parse_all(clause)[1], ListOf(clause))[1]

\* the clauses of `parts` that go to `list`, each parsed alone, in order
RECURSIVE EachAlone(_, _)
EachAlone(parts, list) ==
    IF parts = <<>> THEN <<>>
    ELSE IF ListOf(Head(parts)) = list
    THEN <<Alone(Head(parts))>> \o EachAlone(Tail(parts), list)
    ELSE EachAlone(Tail(parts), list)

\* the elements of a sequence with their number of occurrences
BagOf(seq) ==
    [x \in {seq[i] : i \in 1..Len(seq)} |->
        Cardinality({i \in 1..Len(seq) : seq[i] = x})]

\* parts with the i-th and the next exchanged
Swap(parts, i) ==
    [j \in 1..Len(parts) |->
        IF j = i THEN parts[i + 1] ELSE IF j = i + 1 THEN parts[i] ELSE parts[j]]

\* the one statement of `statements`, parsed from txt, and the one statement
\* that parse_all gives for `swapped` hold the same clauses in each list, up
\* to order
SameClausesIn(swapped, other, txt, statements) ==
    \A list \in ClauseLists :
        BagOf(WrittenList(swapped, other[1], list))
            = BagOf(WrittenList(txt, statements[1], list))

SameClauses(swapped, txt, statements) ==
    \E other \in {parse_all(swapped)} :
        SameClausesIn(swapped, other, txt, statements)

\* a field that is the name x and has no alias
NameField(x) ==
    [expression |-> [kind |-> "ValueExpression", token |-> <<x>>],
     alias_name |-> <<>>]

\* C9: in a statement the SELECT, FROM and WHERE clauses come in any order
\* and any number of times: each keyword appends one clause to its list, in
\* the order met, and the clause is the one the same words give alone.
\* Exchanging two neighbouring clauses (which makes every permutation)
\* leaves each list the same up to order.  "from t select a" and
\* "select a from t" give one FromClause with field t and one SelectClause
\* with field a; "select a\nselect b" gives one statement with two
\* SelectClauses of one field each
C9_ClausesInAnyOrder ==
    (pc = "returned" /\ input.family = "clauses") =>
        /\ Len(ret) = 1
        /\ \A list \in ClauseLists :
            WrittenList(text, ret[1], list) = EachAlone(input.parts, list)
        /\ \A i \in 1..Len(input.parts) - 1 :
            SameClauses(Join(Swap(input.parts, i), input.sep), text, ret)
        /\ text \in {TextFromSelect, TextSelectFrom} =>
            /\ WrittenList(text, ret[1], "froms") = <<(<<NameField("t")>>)>>
            /\ WrittenList(text, ret[1], "selects") = <<(<<NameField("a")>>)>>
            /\ ret[1].wheres = <<>>
        /\ text = TextNewline =>
            /\ WrittenList(text, ret[1], "selects")
                   = <<(<<NameField("a")>>), (<<NameField("b")>>)>>
            /\ ret[1].froms = <<>>
            /\ ret[1].wheres = <<>>

\* three clauses out of the usual order, two of them of the same keyword,
\* have been parsed
C9_Witness ==
    /\ pc = "returned"
    /\ input.family = "clauses"
    /\ Len(input.parts) = 3
    /\ ListOf(input.parts[1]) = "wheres"
    /\ Len(ret[1].selects) = 2
    /\ Len(ret[1].wheres) = 1

-----------------------------------------------------------------------------
(* parse_expression: the precedence table.                                 *)

\* the kind of an operator of the table, from the way it is written
OperatorType(written) == (CHOOSE k \in TableOperators : k.text = written).type

Leaf(x) == [kind |-> "ValueExpression", token |-> <<x>>]

Binary(left, operator, right) ==
    [kind |-> "BinaryExpression", left |-> left, operator |-> operator,
     right |-> right]

\* the tree the table dictates for  a op1 b op2 c
TableTree(op1, op2) ==
    IF operator_to_precedence(OperatorType(op2))
           < operator_to_precedence(OperatorType(op1))
    THEN Binary(Leaf("a"), op1, Binary(Leaf("b"), op2, Leaf("c")))
    ELSE Binary(Binary(Leaf("a"), op1, Leaf("b")), op2, Leaf("c"))

\* parse_expression has returned, called with a ceiling that lets every
\* binary operator in
ExpressionParsed ==
    pc = "expression" /\ ret.expression_precedence >= comma_precedence - 1

\* C10: for binary operators op1 and op2 of the precedence table,
\* 'a op1 b op2 c' parses to Binary(a, op1, Binary(b, op2, c)) when op2 binds
\* strictly tighter than op1 and to Binary(Binary(a, op1, b), op2, c)
\* otherwise; 'a + b * c', 'a * b + c' and 'a < b and c < d' give the trees
\* of the claim
C10_PrecedenceTree ==
    ExpressionParsed =>
        /\ input.family = "operators" =>
            Written(text, ret.expression)
                = TableTree(input.parts[2], input.parts[4])
        /\ text = TextSumProduct =>
            Written(text, ret.expression)
                = Binary(Leaf("a"), <<"+">>, Binary(Leaf("b"), <<"*">>, Leaf("c")))
        /\ text = TextProductSum =>
            Written(text, ret.expression)
                = Binary(Binary(Leaf("a"), <<"*">>, Leaf("b")), <<"+">>, Leaf("c"))
        /\ text = TextComparisons =>
            Written(text, ret.expression)
                = Binary(Binary(Leaf("a"), <<"<">>, Leaf("b")), <<"a", "n", "d">>,
                         Binary(Leaf("c"), <<"<">>, Leaf("d")))


-----------------------------------------------------------------------------
(* parse_expression: operators of equal precedence.                        *)

\* the operators written op1 and op2 have the same precedence in the table
SamePrecedence(op1, op2) ==
    operator_to_precedence(OperatorType(op1))
        = operator_to_precedence(OperatorType(op2))

\* C11: operators of equal precedence associate left to right:
\* 'a op1 b op2 c' with op1 and op2 of the same precedence parses to
\* Binary(Binary(a, op1, b), op2, c), and the chain 'a op b op c op d' to
\* Binary(Binary(Binary(a, op, b), op, c), op, d)
C11_LeftAssociative ==
    ExpressionParsed =>
        /\ (input.family = "operators"
                /\ SamePrecedence(input.parts[2], input.parts[4])) =>
            Written(text, ret.expression)
                = Binary(Binary(Leaf("a"), input.parts[2], Leaf("b")),
                         input.parts[4], Leaf("c"))
        /\ input.family = "chains" =>
            Written(text, ret.expression)
                = Binary(Binary(Binary(Leaf("a"), input.parts[2], Leaf("b")),
                                input.parts[2], Leaf("c")),
                         input.parts[2], Leaf("d"))

-----------------------------------------------------------------------------
(* parse_statement: the tokens it does not know.                           *)

\* the keywords parse_statement knows
IsClauseKeyword(token) ==
    IsName(token, "SELECT") \/ IsName(token, "FROM") \/ IsName(token, "WHERE")

\* the tokens of toks that start at a, or after a and before b
TokensWithin(toks, a, b) ==
    {toks[i] : i \in {j \in 1..Len(toks) : a <= toks[j].start /\ toks[j].start < b}}

\* the token parse_statement meets at `position`, comments and single
\* newlines passed over
StandardTokenAt(txt, position) ==
    get_next_standard_token(txt, NewParser(position)).token

\* the i-th UnknownSequence of statement s is a whole run of unknown tokens:
\* it starts with its first_token and ends with a token, after the
\* UnknownSequence before it and inside the statement; no clause keyword and
\* no semicolon lies in it; a clause keyword lies between it and the
\* UnknownSequence before it (before the first there may be only comments and
\* newlines instead); and what follows it is a clause keyword or the end of
\* the statement
UnknownRun(txt, toks, s, i) ==
    LET u == s.unknowns[i]
        uEnd == u.start + u.length
        prevEnd == IF i = 1 THEN s.start
                   ELSE s.unknowns[i - 1].start + s.unknowns[i - 1].length
        between == TokensWithin(toks, prevEnd, u.start)
    IN  /\ u.start = u.first_token.start
        /\ u.first_token \in TokensWithin(toks, u.start, u.start + 1)
        /\ prevEnd <= u.start
        /\ uEnd <= s.start + s.length
        /\ \E t \in TokensWithin(toks, u.start, uEnd) :
              /\ TokenEnd(t) = uEnd
              /\ ~IsComment(t)
              /\ ~IsPunctuation(t, "NEWLINE")
        /\ \A t \in TokensWithin(toks, u.start, uEnd) :
              ~IsClauseKeyword(t) /\ ~IsPunctuation(t, "SEMICOLON")
        /\ \/ \E t \in between : IsClauseKeyword(t)
           \/ /\ i = 1
              /\ \A t \in between : IsComment(t) \/ IsPunctuation(t, "NEWLINE")
        /\ \/ IsClauseKeyword(StandardTokenAt(txt, uEnd))
           \/ Boundary(StandardTokenAt(txt, uEnd)) # -1

\* C12: the unknowns of a statement are the maximal runs of tokens that
\* parse_statement does not know, comments not interrupting a run: each
\* UnknownSequence goes from its first_token to the end of the last token of
\* its run, they are in order and do not overlap, and a clause was parsed
\* between any two of them
C12_UnknownRuns ==
    pc \in {"parse_all", "returned"} =>
        \A n \in 1..Len(ret) : \A i \in 1..Len(ret[n].unknowns) :
            UnknownRun(text, TokensOf(text), ret[n], i)

\* a statement with two UnknownSequences, a clause between them, the first
\* of more than one token with a comment inside
C12_Witness ==
    /\ pc = "returned"
    /\ Len(ret) = 1
    /\ Len(ret[1].unknowns) = 2
    /\ ret[1].unknowns[1].length > ret[1].unknowns[1].first_token.length
    /\ \E t \in TokensWithin(TokensOf(text), ret[1].unknowns[1].start,
                              ret[1].unknowns[2].start) : IsComment(t)
    /\ Len(ret[1].froms) = 1

-----------------------------------------------------------------------------
(* parse_statement: it goes on after a token it does not know.             *)

\* where the i-th part of the text begins, and where it ends
PartStart(parts, sep, i) ==
    IF i = 1 THEN 0 ELSE Len(Join(SubSeq(parts, 1, i - 1), sep)) + Len(sep)

PartEnd(parts, sep, i) == Len(Join(SubSeq(parts, 1, i), sep))

\* the spans of the runs of Garbage parts, from the i-th part on; start is
\* where the run under way begins, -1 when there is none
RECURSIVE GarbageRuns(_, _, _, _)
GarbageRuns(parts, sep, i, start) ==
    LET run == IF start = -1 THEN <<>>
               ELSE <<[start |-> start,
                       length |-> PartEnd(parts, sep, i - 1) - start]>>
    IN  IF i > Len(parts) THEN run
        ELSE IF parts[i] \in Garbage
        THEN GarbageRuns(parts, sep, i + 1,
                 IF start = -1 THEN PartStart(parts, sep, i) ELSE start)
        ELSE run \o GarbageRuns(parts, sep, i + 1, -1)

IsClausePart(part) == part \notin Garbage

\* C13: a token parse_statement does not know does not end the statement:
\* in a text made of clauses and of runs of such tokens, the one statement
\* holds every clause, those before a run and those after it, each as it
\* parses alone, and one UnknownSequence for each run, covering it.  For
\* "select 1 @@@ 2" the statement has one UnknownSequence, covering
\* "@@@ 2", and selects holds the field 1
C13_UnknownTokenRecovery ==
    /\ (pc = "returned" /\ input.family = "recovery" /\ input.parts # <<>>) =>
        /\ Len(ret) = 1
        /\ \A list \in ClauseLists :
            WrittenList(text, ret[1], list)
                = EachAlone(SelectSeq(input.parts, IsClausePart), list)
        /\ SpansOf(ret[1].unknowns) = GarbageRuns(input.parts, input.sep, 1, -1)
    /\ (pc = "returned" /\ text = TextUnknownRun) =>
        /\ Len(ret) = 1
        /\ SpansOf(ret[1].unknowns) = <<[start |-> 9, length |-> 5]>>
        /\ TokenText(text, ret[1].unknowns[1].first_token) = <<"@", "@", "@">>
        /\ WrittenList(text, ret[1], "selects") = <<(<<NameField("1")>>)>>
        /\ ret[1].froms = <<>>
        /\ ret[1].wheres = <<>>

\* a clause, a run of unknown tokens and a clause have been parsed into one
\* statement
C13_Witness ==
    /\ pc = "returned"
    /\ input.family = "recovery"
    /\ Len(input.parts) = 3
    /\ IsClausePart(input.parts[1])
    /\ ~IsClausePart(input.parts[2])
    /\ IsClausePart(input.parts[3])
    /\ Len(ret) = 1
    /\ Len(ret[1].unknowns) = 1
    /\ Len(ret[1].selects) + Len(ret[1].froms) + Len(ret[1].wheres) = 2

-----------------------------------------------------------------------------
(* Strings (LexSpec).                                                      *)

IsString(token) ==
    IsSpecial(token, "SINGLE_QUOTE_STRING") \/ IsSpecial(token, "DOUBLE_QUOTE_STRING")

\* where the first quote q at p or after it that no backslash precedes is,
\* -1 when the text has none
RECURSIVE ClosingQuote(_, _, _)
ClosingQuote(txt, p, q) ==
    IF p >= Len(txt) THEN -1
    ELSE IF At(txt, p) = q /\ At(txt, p - 1) # "\\" THEN p
    ELSE ClosingQuote(txt, p + 1, q)

\* the string token that starts at `start`, as the rule of the closing quote
\* gives it
StringByRule(txt, start) ==
    LET close == ClosingQuote(txt, start + 1, At(txt, start))
    IN  [start |-> start,
         length |-> IF close = -1 THEN Len(txt) - start ELSE close + 1 - start,
         has_end_sequence |-> close # -1]

\* what the rule looks at in a token
StringOf(token) ==
    [start |-> token.start, length |-> token.length,
     has_end_sequence |-> token.has_end_sequence]

\* C14: a string token ends at the first closing quote of its kind that no
\* backslash precedes and is then terminated; when the text has no such
\* quote the token goes to the end of the text and is not terminated.
\* "select 'abc" ends with an unterminated string that reaches the end of
\* the text
C14_StringEndsAtUnescapedQuote ==
    /\ \A i \in 1..Len(consumed) :
          IsString(consumed[i]) =>
              StringOf(consumed[i]) = StringByRule(text, consumed[i].start)
    /\ LET toks == TokensOf(TextOpenString)
       IN  /\ Len(toks) = 3
           /\ IsSpecial(toks[2], "SINGLE_QUOTE_STRING")
           /\ ~toks[2].has_end_sequence
           /\ TokenEnd(toks[2]) = Len(TextOpenString)

-----------------------------------------------------------------------------
(* Operators: the kind of a punctuation token.                             *)

\* the texts text_to_punctuation_token maps to a kind
MappedTexts == {k.text : k \in PunctuationKinds}

\* the i-th token of toks is the operator written `written`, whole, with the
\* kind the mapping gives it
IsOperatorToken(txt, toks, i, written) ==
    /\ TokenText(txt, toks[i]) = written
    /\ toks[i].type = OperatorType(written)
    /\ written \in MappedTexts => toks[i].tag = "PunctuationToken"

\* C15: each operator of the precedence table, written between two names
\* with spaces or without, tokenizes to one token of the kind the mapping
\* gives its text, and an UNKNOWN_OPERATOR token is produced only for a text
\* that is not in the mapping
C15_OperatorKinds ==
    /\ (AtEnd /\ input.family = "operator") =>
        /\ Len(consumed) = 4
        /\ IsOperatorToken(text, consumed, 2, input.parts[2])
    /\ \A i \in 1..Len(consumed) :
          consumed[i].type = "UNKNOWN_OPERATOR"
              => TokenText(text, consumed[i]) \notin MappedTexts

-----------------------------------------------------------------------------
(* parse_expression: the comma.                                            *)

\* an expression and the expressions inside it
RECURSIVE Nodes(_)
Nodes(e) ==
    CASE e.kind = "ParenExpression" -> {e} \cup Nodes(e.expr)
      [] e.kind = "BinaryExpression" -> {e} \cup Nodes(e.left) \cup Nodes(e.right)
      [] OTHER -> {e}

\* the expressions of the clauses of a statement
ClauseExpressions(s) ==
    UNION {{s.selects[i].fields[j].expression :
                j \in 1..Len(s.selects[i].fields)} : i \in 1..Len(s.selects)}
    \cup UNION {{s.froms[i].fields[j].table_name :
                     j \in 1..Len(s.froms[i].fields)} : i \in 1..Len(s.froms)}
    \cup {s.wheres[i].expression : i \in 1..Len(s.wheres)}

IsCommaBinary(e) ==
    e.kind = "BinaryExpression" /\ IsPunctuation(e.operator, "COMMA")

\* the commas of e are where a ceiling of comma_precedence lets them in:
\* `allowed` tells whether e itself was parsed under that ceiling.  The inner
\* expression of a parenthesis is; a left operand is when the expression it
\* belongs to is; a right operand never is
RECURSIVE CommasUnderCeiling(_, _)
CommasUnderCeiling(e, allowed) ==
    CASE e.kind = "ParenExpression" -> CommasUnderCeiling(e.expr, TRUE)
      [] e.kind = "BinaryExpression" ->
            /\ IsCommaBinary(e) => allowed
            /\ CommasUnderCeiling(e.left, allowed)
            /\ CommasUnderCeiling(e.right, FALSE)
      [] OTHER -> TRUE

\* C16 as first stated: no BinaryExpression of a tree parse_expression
\* returns has a COMMA operator, whatever the ceiling, inside parentheses too
C16_NoCommaOperator ==
    /\ pc = "expression" =>
        \A e \in Nodes(ret.expression) : ~IsCommaBinary(e)
    /\ pc \in {"parse_all", "returned"} =>
        \A n \in 1..Len(ret) : \A x \in ClauseExpressions(ret[n]) :
            \A e \in Nodes(x) : ~IsCommaBinary(e)

\* C16: parse_expression consumes a comma as a binary operator only under
\* the ceiling comma_precedence, which is that of the inside of a
\* parenthesis: the expression of a SELECT or FROM field or of a WHERE, and
\* every right operand, has no COMMA operator outside parentheses, and
\* inside a parenthesis a COMMA operator is at the root of the inner
\* expression or down its left operands
C16_CommaOnlyUnderCommaCeiling ==
    /\ pc = "expression" =>
        CommasUnderCeiling(ret.expression,
                           ret.expression_precedence >= comma_precedence)
    /\ pc \in {"parse_all", "returned"} =>
        \A n \in 1..Len(ret) : \A x \in ClauseExpressions(ret[n]) :
            CommasUnderCeiling(x, FALSE)

\* "(a + b, c, d)" has been parsed under the ceiling of a field: the commas
\* are operators inside the parenthesis
C16_Witness ==
    /\ pc = "expression"
    /\ ret.expression_precedence = comma_precedence - 1
    /\ text = TextCommasInParen
    /\ ret.expression.kind = "ParenExpression"
    /\ IsCommaBinary(ret.expression.expr)
    /\ IsCommaBinary(ret.expression.expr.left)
    /\ ret.expression.right_paren # None

-----------------------------------------------------------------------------
(* parse_from: the table expression.                                       *)

\* the table_name of every FromField of a statement
TableNames(s) ==
    UNION {{s.froms[i].fields[j].table_name :
               j \in 1..Len(s.froms[i].fields)} : i \in 1..Len(s.froms)}

IsDotBinary(e) ==
    e.kind = "BinaryExpression" /\ IsPunctuation(e.operator, "DOT")

\* a Value leaf, or a left-nested chain of DOT BinaryExpressions whose
\* operands are Value leaves
RECURSIVE IsDotChain(_)
IsDotChain(e) ==
    CASE e.kind = "ValueExpression" -> TRUE
      [] e.kind = "BinaryExpression" ->
            /\ IsDotBinary(e)
            /\ e.right.kind = "ValueExpression"
            /\ IsDotChain(e.left)
      [] OTHER -> FALSE

\* C17 as first stated: the table_name of every FromField is a Value leaf or
\* a left-nested chain of DOT BinaryExpressions over Value leaves
C17_OnlyDotChains ==
    pc \in {"parse_all", "returned"} =>
        \A n \in 1..Len(ret) : \A e \in TableNames(ret[n]) : IsDotChain(e)

\* a left-nested chain of DOT BinaryExpressions whose operands are no
\* BinaryExpression: a Value, a ParenExpression or, as the last operand
\* only, a Placeholder
RECURSIVE IsDotChainOfOperands(_)
IsDotChainOfOperands(e) ==
    CASE e.kind = "BinaryExpression" ->
            /\ IsDotBinary(e)
            /\ e.right.kind # "BinaryExpression"
            /\ e.left.kind # "PlaceholderExpression"
            /\ IsDotChainOfOperands(e.left)
      [] OTHER -> TRUE

\* C17: outside parentheses the only operator of a table expression is DOT:
\* the table_name of every FromField is one operand or a left-nested chain
\* of DOT BinaryExpressions whose operands are a Value or a ParenExpression
\* (which holds any expression), the last one a Placeholder when nothing
\* could be parsed there; so is what parse_expression returns under the
\* ceiling of DOT
C17_DotChainsOfOperands ==
    /\ pc \in {"parse_all", "returned"} =>
        \A n \in 1..Len(ret) : \A e \in TableNames(ret[n]) :
            IsDotChainOfOperands(e)
    /\ (pc = "expression"
            /\ ret.expression_precedence = operator_to_precedence("DOT")) =>
        IsDotChainOfOperands(ret.expression)

\* "from (a + b) x" has been parsed: the table is a parenthesis that holds
\* a sum, with the alias x
C17_Witness ==
    /\ pc = "returned"
    /\ text = TextFromParen
    /\ Len(ret) = 1
    /\ Len(ret[1].froms) = 1
    /\ ret[1].froms[1].fields[1].table_name.kind = "ParenExpression"
    /\ ret[1].froms[1].fields[1].table_name.expr.kind = "BinaryExpression"
    /\ ret[1].froms[1].fields[1].table_name.expr.operator.type = "PLUS"
    /\ ret[1].froms[1].fields[1].alias_name # None
    /\ ret[1].unknowns = <<>>

-----------------------------------------------------------------------------
(* parse_expression: the placeholder.                                      *)

IsPlaceholder(e) == e.kind = "PlaceholderExpression"

\* the last operand of e, parentheses not entered, is a placeholder
RECURSIVE EndsInPlaceholder(_)
EndsInPlaceholder(e) ==
    CASE e.kind = "PlaceholderExpression" -> TRUE
      [] e.kind = "BinaryExpression" -> EndsInPlaceholder(e.right)
      [] OTHER -> FALSE

\* every expression parse_all or parse_expression has returned, and the
\* expressions inside them
ReturnedNodes ==
    IF pc = "expression" THEN Nodes(ret.expression)
    ELSE IF pc \in {"parse_all", "returned"}
    THEN UNION {UNION {Nodes(x) : x \in ClauseExpressions(ret[n])} :
                    n \in 1..Len(ret)}
    ELSE {}

\* the tokens consumed after position `from` are comments and newlines only
OnlySkippedSince(from) ==
    \A t \in TokensWithin(TokensOf(text), from,
                          tokenizer.end_idx_of_last_consumed_token) :
        IsComment(t) \/ IsPunctuation(t, "NEWLINE")

\* C18 as first stated: once a placeholder is produced no call of the same
\* expression consumes an operator: no BinaryExpression has a left operand
\* that ends in a placeholder
C18_NothingAfterPlaceholder ==
    /\ ~raised
    /\ \A e \in ReturnedNodes :
          e.kind = "BinaryExpression" => ~EndsInPlaceholder(e.left)

\* C18: the call of parse_expression whose leaf, or whose own right-hand
\* side, is a placeholder stops climbing at once: it returns the
\* placeholder, or BinaryExpression(expression, binop, placeholder), having
\* consumed nothing after it, and no exception escapes.  So the left
\* operand of a BinaryExpression is never a placeholder nor a
\* BinaryExpression whose right operand is one.  (A call further out, whose
\* right-hand side is that BinaryExpression, goes on climbing.)
C18_PlaceholderStopsItsCall ==
    /\ ~raised
    /\ \A e \in ReturnedNodes :
          e.kind = "BinaryExpression" =>
              /\ ~IsPlaceholder(e.left)
              /\ e.left.kind = "BinaryExpression" => ~IsPlaceholder(e.left.right)
    /\ (pc = "expression" /\ IsPlaceholder(ret.expression)) =>
          OnlySkippedSince(0)
    /\ (pc = "expression" /\ ret.expression.kind = "BinaryExpression"
            /\ IsPlaceholder(ret.expression.right)) =>
          OnlySkippedSince(TokenEnd(ret.expression.operator))

\* "a + b * + c" has been parsed: the right-hand side of the product is a
\* placeholder, and the call that parsed the sum went on to the second +
C18_Witness ==
    /\ pc = "expression"
    /\ text = TextPlaceholderInside
    /\ ret.expression_precedence = comma_precedence - 1
    /\ Written(text, ret.expression)
           = Binary(Binary(Leaf("a"), <<"+">>,
                           Binary(Leaf("b"), <<"*">>,
                                  [kind |-> "PlaceholderExpression"])),
                    <<"+">>, Leaf("c"))

-----------------------------------------------------------------------------
(* parse_non_binary_expression: the parenthesis.                           *)

\* where the last token of the expression e ends; `before` is where the
\* token before e ends, which is the answer when e is a placeholder
RECURSIVE LastEnd(_, _)
LastEnd(e, before) ==
    CASE e.kind = "ValueExpression" -> TokenEnd(e.token)
      [] e.kind = "ParenExpression" ->
            IF e.right_paren # None THEN TokenEnd(e.right_paren)
            ELSE LastEnd(e.expr, TokenEnd(e.left_paren))
      [] e.kind = "BinaryExpression" -> LastEnd(e.right, TokenEnd(e.operator))
      [] OTHER -> before

\* the first operand of an expression
RECURSIVE FirstOperand(_)
FirstOperand(e) ==
    IF e.kind = "BinaryExpression" THEN FirstOperand(e.left) ELSE e

\* the ParenExpression e holds its "(" and, for right_paren, the ")" that
\* is the next standard token after its inner expression, None when that
\* token is no ")"
ParenClosedByNext(txt, e) ==
    LET next == StandardTokenAt(txt, LastEnd(e.expr, TokenEnd(e.left_paren)))
    IN  /\ IsPunctuation(e.left_paren, "LEFT_PAREN")
        /\ e.right_paren = IF IsPunctuation(next, "RIGHT_PAREN") THEN next ELSE None

\* C19: a "(" always gives a ParenExpression with the left-paren token and
\* the inner expression; its right_paren is the ")" that follows the inner
\* expression, which is consumed, and None when another token follows, which
\* is then left where it is; nothing is raised
C19_ParenExpression ==
    /\ ~raised
    /\ \A e \in ReturnedNodes :
          e.kind = "ParenExpression" => ParenClosedByNext(text, e)
    /\ (pc = "expression" /\ IsPunctuation(StandardTokenAt(text, 0), "LEFT_PAREN")) =>
          /\ FirstOperand(ret.expression).kind = "ParenExpression"
          /\ FirstOperand(ret.expression).left_paren = StandardTokenAt(text, 0)
    /\ (pc = "expression" /\ ret.expression.kind = "ParenExpression") =>
          OnlySkippedSince(LastEnd(ret.expression, 0))

\* a parenthesis that is not closed has been parsed: the token found in the
\* place of the ")" is still to be consumed
C19_Witness ==
    /\ pc = "expression"
    /\ ret.expression.kind = "ParenExpression"
    /\ ret.expression.expr.kind = "ValueExpression"
    /\ ret.expression.right_paren = None
    /\ ~IsEOS(StandardTokenAt(text, LastEnd(ret.expression, 0)))
    /\ tokenizer.end_idx_of_last_consumed_token = LastEnd(ret.expression, 0)

-----------------------------------------------------------------------------
(* parse_all: the spans of the statements.                                 *)

\* toks[i] ends a statement: a semicolon, two newline tokens or
\* END_OF_STRING comes next
BoundaryAfter(toks, i) ==
    \/ IsEOS(toks[i + 1])
    \/ IsPunctuation(toks[i + 1], "SEMICOLON")
    \/ IsPunctuation(toks[i + 1], "NEWLINE") /\ IsPunctuation(toks[i + 2], "NEWLINE")

\* the span of s starts with the first token after position `from` that is
\* no newline and no semicolon, and ends where a token ends that has a
\* boundary after it
SpanOfTokens(toks, s, from) ==
    \E i \in 1..(Len(toks) - 1) :
        /\ toks[i].start = s.start
        /\ from <= s.start
        /\ ~IsBoundaryToken(toks[i])
        /\ \A t \in TokensWithin(toks, from, s.start) : IsBoundaryToken(t)
        /\ \E j \in i..(Len(toks) - 1) :
              /\ TokenEnd(toks[j]) = s.start + s.length
              /\ BoundaryAfter(toks, j)

\* C20: the statements parse_all returns are in the order of the text and
\* their spans do not overlap, s.start + s.length <= t.start for a statement
\* s and the statement t after it; a span starts at the first token of its
\* statement and ends at the end of the last token consumed before the
\* boundary
C20_SpansInOrder ==
    pc \in {"parse_all", "returned"} =>
        \A n \in 1..Len(ret) :
            /\ n < Len(ret) =>
                  /\ ret[n].start + ret[n].length <= ret[n + 1].start
                  /\ ret[n].start < ret[n + 1].start
            /\ SpanOfTokens(TokensOf(text), ret[n],
                            IF n = 1 THEN 0
                            ELSE ret[n - 1].start + ret[n - 1].length)

\* three statements, the second one two characters or more after the end
\* of the first
C20_Witness ==
    /\ pc = "returned"
    /\ Len(ret) >= 3
    /\ ret[1].length > 0
    /\ ret[1].start + ret[1].length + 1 < ret[2].start
    /\ ret[2].start + ret[2].length < ret[3].start
    /\ ret[3].length > 0

-----------------------------------------------------------------------------
(* Parser(text, start_position): one call on a parser created at an        *)
(* offset of the text (OffsetSpec).                                         *)

\* the words of the "comments" family: -- c, /*c*/, a, a newline
CommentWords ==
    { <<"-", "-", " ", "c">>, <<"/", "*", "c", "*", "/">>, <<"a">>, <<"\n">> }

\* how a text of OffsetSpec can be written
OffsetInputs ==
    {[family |-> "characters", parts |-> <<t>>, sep |-> <<>>] :
        t \in TextsUpTo(ParserChars, MaxChars)}
    \cup {[family |-> "comments", parts |-> ws, sep |-> sp] :
        ws \in TextsUpTo(CommentWords, MaxParts), sp \in {<<" ">>, <<"\n">>}}
    \cup {[family |-> "examples", parts |-> <<e>>, sep |-> <<>>] : e \in Examples}

OffsetInit ==
    /\ input \in OffsetInputs
    /\ text = Join(input.parts, input.sep)
    /\ start_offset \in 0..Len(text)
    /\ tokenizer = NewTokenizer(start_offset)
    /\ consumed = <<>>
    /\ peeked = {}
    /\ last = [op |-> "init", k |-> 0, token |-> None, promised |-> {}]
    /\ pc = "start"
    /\ ret = <<>>
    /\ stalled = FALSE
    /\ raised = FALSE

\* st is the parser and the Statement parse_statement returned
StatementReturned(st) ==
    /\ tokenizer' = st.p.tk
    /\ ret' = st.v
    /\ stalled' = st.p.stalled
    /\ raised' = st.p.raised
    /\ pc' = IF st.p.raised THEN "raised"
             ELSE IF st.p.stalled THEN "diverged" ELSE "statement"

\* Parser(text, start_offset).parse_statement()
CallParseStatement ==
    /\ pc = "start"
    /\ \E st \in {parse_statement(text, ThisParser)} : StatementReturned(st)
    /\ UNCHANGED <<text, consumed, peeked, last, start_offset, input>>

\* g is the parser and the token get_next_standard_token returned
TokenReturned(g) ==
    /\ tokenizer' = g.p.tk
    /\ ret' = [token |-> g.token, comments |-> g.p.comments]
    /\ stalled' = g.p.stalled
    /\ raised' = g.p.raised
    /\ pc' = IF g.p.raised THEN "raised"
             ELSE IF g.p.stalled THEN "diverged" ELSE "token"

\* Parser(text, start_offset).get_next_standard_token(statement)
CallGetNextStandardToken ==
    /\ pc = "start"
    /\ \E g \in {get_next_standard_token(text, ThisParser)} : TokenReturned(g)
    /\ UNCHANGED <<text, consumed, peeked, last, start_offset, input>>

OffsetNext ==
    \/ CallParseStatement
    \/ CallGetNextStandardToken

OffsetSpec == OffsetInit /\ [][OffsetNext]_vars

\* C21: Parser(text, offset).parse_statement(), 0 <= offset <= len(text),
\* returns a Statement whose span has a length >= 0 and lies in
\* [0, len(text)], whatever the token at the offset
C21_StatementSpanInText ==
    /\ ~raised
    /\ pc = "statement" =>
        /\ ret.start >= 0
        /\ ret.length >= 0
        /\ ret.start + ret.length <= Len(text)

-----------------------------------------------------------------------------
(* _search_next on the text of one token (LexSpec).                         *)

\* the first token of the text of `token` taken on its own:
\* Tokenizer(text[start:start + length]).consume()
Relexed(txt, token) == _search_next(TokenText(txt, token), 0).token

\* C22: for every token other than END_OF_STRING the tokenizer gives, the
\* first token of the substring text[start:start + length] on its own has
\* the same tag, the same kind and the same length
C22_RelexSameToken ==
    \A i \in 1..Len(consumed) :
        ~IsEOS(consumed[i]) =>
            /\ Relexed(text, consumed[i]).tag = consumed[i].tag
            /\ Relexed(text, consumed[i]).type = consumed[i].type
            /\ Relexed(text, consumed[i]).length = consumed[i].length
            /\ Relexed(text, consumed[i]).start = 0

\* a string or a comment of two characters or more, that neither starts nor
\* ends the text, has been given
C22_Witness ==
    /\ AtEnd
    /\ \E i \in 1..Len(consumed) :
          /\ consumed[i].tag = "SpecialToken"
          /\ consumed[i].start > 0
          /\ consumed[i].length >= 2
          /\ TokenEnd(consumed[i]) < Len(text)

-----------------------------------------------------------------------------
(* autocomplete.py: Autocomplete.extract_name_from_token (NameSpec).        *)

\* cursor = None
NoCursor == -1

\* `return None`
NoName == [is_none |-> TRUE, name |-> <<>>]

\* `return name`
Name(name) == [is_none |-> FALSE, name |-> name]

\* name[:-1] when name ends with the double quote
WithoutClosingQuote(name) ==
    IF name # <<>> /\ name[Len(name)] = "\"" THEN SubSeq(name, 1, Len(name) - 1)
    ELSE name

\* the branches on the kind of the token, with `end` set
NameUpTo(txt, token, end) ==
    IF IsName(token, "NON_KEYWORD") THEN Name(Slice(txt, token.start, end))
    ELSE IF IsSpecial(token, "DOUBLE_QUOTE_STRING")
    THEN Name(WithoutClosingQuote(Slice(txt, token.start + 1, end)))
    ELSE NoName

\* extract_name_from_token, had the cursor not cut the name
extract_name_from_token_whole(txt, token, cursor) ==
    IF cursor # NoCursor /\ ~(token.start <= cursor /\ cursor <= TokenEnd(token))
    THEN NoName
    ELSE NameUpTo(txt, token, TokenEnd(token))

\* Autocomplete.extract_name_from_token(text, token, cursor)
extract_name_from_token(txt, token, cursor) ==
    IF cursor # NoCursor /\ ~(token.start <= cursor /\ cursor <= TokenEnd(token))
    THEN NoName
    ELSE NameUpTo(txt, token, IF cursor # NoCursor THEN cursor ELSE TokenEnd(token))

\* the characters the texts of NameSpec are written in
NameChars == {"a", "s", "1", "\"", " "}

NameInit ==
    /\ text \in TextsUpTo(NameChars, MaxChars)
    /\ input = [family |-> "characters", parts |-> <<text>>, sep |-> <<>>]
    /\ start_offset = 0
    /\ tokenizer = NewTokenizer(start_offset)
    /\ consumed = <<>>
    /\ peeked = {}
    /\ last = [op |-> "init", k |-> 0, token |-> None, promised |-> {}]
    /\ pc = "start"
    /\ ret = <<>>
    /\ stalled = FALSE
    /\ raised = FALSE

\* extract_name_from_token is called with a token of the text and a cursor
\* in the text, or with no cursor
CallExtractName(i, cursor) ==
    /\ pc = "start"
    /\ i \in 1..Len(TokensOf(text))
    /\ pc' = "extracted"
    /\ ret' = [token |-> TokensOf(text)[i], cursor |-> cursor,
               name |-> extract_name_from_token(text, TokensOf(text)[i], cursor)]
    /\ UNCHANGED <<text, tokenizer, consumed, peeked, last, start_offset, input,
                   stalled, raised>>

NameNext ==
    \E i \in 1..(MaxChars + 1), cursor \in {NoCursor} \cup 0..Len(text) :
        CallExtractName(i, cursor)

NameSpec == NameInit /\ [][NameNext]_vars

\* the cursor given lies in the span of the token
CursorInToken ==
    /\ ret.cursor # NoCursor
    /\ ret.token.start <= ret.cursor
    /\ ret.cursor <= TokenEnd(ret.token)

\* C23 as first stated: extract_name_from_token returns None when the cursor
\* is outside [token.start, token.start + token.length], and
\* text[token.start:cursor] when the cursor is in the span of a name token
C23_NameUpToCursor ==
    pc = "extracted" =>
        /\ (ret.cursor # NoCursor /\ ~CursorInToken) => ret.name = NoName
        /\ (CursorInToken /\ ret.token.tag = "NameToken") =>
              ret.name = Name(Slice(text, ret.token.start, ret.cursor))

\* C23: extract_name_from_token returns None when the cursor is outside
\* [token.start, token.start + token.length]; when the cursor is in the span
\* of a name token that is no keyword it returns text[token.start:cursor];
\* for a name token that is a keyword it returns None
C23_NonKeywordNameUpToCursor ==
    pc = "extracted" =>
        /\ (ret.cursor # NoCursor /\ ~CursorInToken) => ret.name = NoName
        /\ (CursorInToken /\ IsName(ret.token, "NON_KEYWORD")) =>
              ret.name = Name(Slice(text, ret.token.start, ret.cursor))
        /\ (ret.token.tag = "NameToken" /\ ~IsName(ret.token, "NON_KEYWORD")) =>
              ret.name = NoName

\* the cursor is inside a name that is no keyword and does not start the
\* text: what comes back is the part of the name before the cursor
C23_Witness ==
    /\ pc = "extracted"
    /\ IsName(ret.token, "NON_KEYWORD")
    /\ ret.token.start > 0
    /\ ret.token.start < ret.cursor
    /\ ret.cursor < TokenEnd(ret.token)
    /\ ret.name = Name(<<text[ret.token.start + 1]>>)

-----------------------------------------------------------------------------
(* _search_next: the operator tokens (LexSpec).                             *)

\* the operator alphabet as the documentation of my_token.py writes it,
\* character by character: ! @ # ^ & * - + = | < > / % . :
WrittenOperatorChars == OperatorChars \cup {"-"}

\* C24: an operator token is the longest run of characters of the operator
\* alphabet ! @ # ^ & * - + = | < > / % . : from where it starts (a leading
\* "--" or "/*" is a comment instead); "4++4" gives "++" as one token and
\* "<--" gives one operator token of length 3
C24_LongestOperatorRun ==
    /\ \A i \in 1..Len(consumed) :
          (consumed[i].tag = "PunctuationToken"
              /\ At(text, consumed[i].start) \in WrittenOperatorChars) =>
                TokenEnd(consumed[i])
                    = ScanWhile(text, consumed[i].start, WrittenOperatorChars)
    /\ (AtEnd /\ text = TextPlusPlus) =>
          /\ consumed[2].tag = "PunctuationToken"
          /\ consumed[2].start = 1
          /\ consumed[2].length = 2
    /\ (AtEnd /\ text = TextArrow) =>
          /\ consumed[1].tag = "PunctuationToken"
          /\ consumed[1].length = 3
          /\ IsEOS(consumed[2])

-----------------------------------------------------------------------------
(* get_next_standard_token on a parser created at an offset (OffsetSpec).   *)

\* the tokens a tokenizer created at start_offset gives, END_OF_STRING last
TokensFromOffset == TokensFrom(text, NewTokenizer(start_offset))

\* the place in toks of the token returned
ReturnedAt(toks) == CHOOSE k \in 1..Len(toks) : toks[k] = ret.token

\* the first k - 1 tokens of toks are what get_next_standard_token skips:
\* comments, and newlines that no newline follows
SkippedBefore(toks, k) ==
    \A j \in 1..(k - 1) :
        \/ IsComment(toks[j])
        \/ IsPunctuation(toks[j], "NEWLINE") /\ ~IsPunctuation(toks[j + 1], "NEWLINE")

\* C25: get_next_standard_token does not consume the token it returns; the
\* token is no comment, and a NEWLINE only when the token after it is a
\* NEWLINE too; the tokens before it are comments and newlines that no
\* newline follows, all of them consumed, and the comments among them are
\* the comments list of the statement, each once and in the order of the text
C25_NextStandardToken ==
    /\ ~raised
    /\ pc = "token" =>
        /\ ret.token \in {TokensFromOffset[k] : k \in 1..Len(TokensFromOffset)}
        /\ peek(text, tokenizer, 1).token = ret.token
        /\ ~IsComment(ret.token)
        /\ IsPunctuation(ret.token, "NEWLINE") =>
              IsPunctuation(peek(text, tokenizer, 2).token, "NEWLINE")
        /\ SkippedBefore(TokensFromOffset, ReturnedAt(TokensFromOffset))
        /\ ret.comments
              = SelectSeq(SubSeq(TokensFromOffset, 1, ReturnedAt(TokensFromOffset) - 1),
                          IsComment)
        /\ tokenizer.end_idx_of_last_consumed_token
              = IF ReturnedAt(TokensFromOffset) = 1 THEN -1
                ELSE TokenEnd(TokensFromOffset[ReturnedAt(TokensFromOffset) - 1])

\* two comments and a newline have been skipped before a name
C25_Witness ==
    /\ pc = "token"
    /\ Len(ret.comments) = 2
    /\ ret.comments[1].start < ret.comments[2].start
    /\ ReturnedAt(TokensFromOffset) >= 4
    /\ IsName(ret.token, "NON_KEYWORD")

-----------------------------------------------------------------------------
(* parse_select and parse_from called on a clause (ClauseSpec).             *)

\* the most words after the keyword in a text of ClauseSpec
MaxFieldWords == 4

\* the words of the fields: a, "x", as, a comma, a dot, a left parenthesis
FieldWords ==
    { <<"a">>, <<"\"", "x", "\"">>, <<"a", "s">>, <<",">>, <<".">>, <<"(">> }

\* select a as, b
TextAsComma ==
    <<"s", "e", "l", "e", "c", "t", " ", "a", " ", "a", "s", ",", " ", "b">>

\* the texts of ClauseSpec: select or from and the words of its fields
ClauseInputs ==
    {[family |-> "fields", parts |-> <<kw>> \o ws, sep |-> <<" ">>] :
        kw \in { <<"s", "e", "l", "e", "c", "t">>, <<"f", "r", "o", "m">> },
        ws \in TextsUpTo(FieldWords, MaxFieldWords)}
    \cup {[family |-> "examples", parts |-> <<e>>, sep |-> <<>>] :
        e \in {TextAsComma}}

ClauseInit ==
    /\ input \in ClauseInputs
    /\ text = Join(input.parts, input.sep)
    /\ start_offset = 0
    /\ tokenizer = NewTokenizer(start_offset)
    /\ consumed = <<>>
    /\ peeked = {}
    /\ last = [op |-> "init", k |-> 0, token |-> None, promised |-> {}]
    /\ pc = "start"
    /\ ret = <<>>
    /\ stalled = FALSE
    /\ raised = FALSE

\* c is the parser and the clause parse_select or parse_from returned
ClauseReturned(c) ==
    /\ tokenizer' = c.p.tk
    /\ ret' = c.v
    /\ stalled' = c.p.stalled
    /\ raised' = c.p.raised
    /\ pc' = IF c.p.raised THEN "raised"
             ELSE IF c.p.stalled THEN "diverged" ELSE "clause"

\* parse_statement has met SELECT: parse_select(ret) is called
CallParseSelect ==
    /\ pc = "start"
    /\ IsName(StandardTokenAt(text, 0), "SELECT")
    /\ \E c \in {parse_select(text, get_next_standard_token(text, ThisParser).p)} :
            ClauseReturned(c)
    /\ UNCHANGED <<text, consumed, peeked, last, start_offset, input>>

\* parse_statement has met FROM: parse_from(ret) is called
CallParseFrom ==
    /\ pc = "start"
    /\ IsName(StandardTokenAt(text, 0), "FROM")
    /\ \E c \in {parse_from(text, get_next_standard_token(text, ThisParser).p)} :
            ClauseReturned(c)
    /\ UNCHANGED <<text, consumed, peeked, last, start_offset, input>>

ClauseNext ==
    \/ CallParseSelect
    \/ CallParseFrom
    \/ CallParseStatement

ClauseSpec == ClauseInit /\ [][ClauseNext]_vars

\* the expression of a field
ExpressionOf(field) ==
    IF field.kind = "SelectField" THEN field.expression ELSE field.table_name

\* the operator tokens of the BinaryExpressions of a clause
OperatorTokens(clause) ==
    UNION {{n.operator : n \in {m \in Nodes(ExpressionOf(clause.fields[j])) :
                                      m.kind = "BinaryExpression"}} :
               j \in 1..Len(clause.fields)}

\* the commas the loop of the clause has consumed: the commas among the
\* tokens consumed that are no operator of an expression of the clause
LoopCommas(clause) ==
    {t \in TokensWithin(TokensOf(text), 0, tokenizer.end_idx_of_last_consumed_token) :
        IsPunctuation(t, "COMMA")} \ OperatorTokens(clause)

\* where the j-th field of the clause starts: after the keyword, or after
\* the comma before it
FieldStart(commas, j) ==
    IF j = 1 THEN TokenEnd(StandardTokenAt(text, 0))
    ELSE TokenEnd(CHOOSE c \in commas :
                     Cardinality({d \in commas : d.start < c.start}) = j - 2)

\* parse_non_binary_expression makes an expression of the token
StartsExpression(token) == IsValue(token) \/ IsPunctuation(token, "LEFT_PAREN")

\* C26: every SelectClause and FromClause returned has one field or more,
\* one more than the commas the loop of the clause has consumed; the field
\* after the keyword, or after a comma, that no expression follows has a
\* Placeholder for expression, and nothing is raised
C26_FieldsAndCommas ==
    /\ ~raised
    /\ pc = "clause" =>
        /\ Len(ret.fields) >= 1
        /\ Len(ret.fields) = Cardinality(LoopCommas(ret)) + 1
        /\ \A j \in 1..Len(ret.fields) :
              IsPlaceholder(ExpressionOf(ret.fields[j]))
                  <=> ~StartsExpression(
                          StandardTokenAt(text, FieldStart(LoopCommas(ret), j)))
    /\ pc = "statement" =>
        /\ \A i \in 1..Len(ret.selects) : Len(ret.selects[i].fields) >= 1
        /\ \A i \in 1..Len(ret.froms) : Len(ret.froms[i].fields) >= 1

\* a clause of three fields has been parsed: the comma before the third is
\* the last token of the clause, and the third field is a Placeholder
C26_Witness ==
    /\ pc = "clause"
    /\ Len(ret.fields) = 3
    /\ ~IsPlaceholder(ExpressionOf(ret.fields[1]))
    /\ ~IsPlaceholder(ExpressionOf(ret.fields[2]))
    /\ IsPlaceholder(ExpressionOf(ret.fields[3]))
    /\ IsEOS(StandardTokenAt(text, tokenizer.end_idx_of_last_consumed_token))

-----------------------------------------------------------------------------
(* parse_select and parse_from: AS and the alias (ClauseSpec).              *)

\* the first standard token after the expression of the field that starts
\* at `start`
AfterExpression(field, start) ==
    StandardTokenAt(text, LastEnd(ExpressionOf(field), start))

\* the token in the place of the alias: the one after the AS when the
\* expression is followed by AS, else the one after the expression
InAliasPlace(after) ==
    IF IsName(after, "AS") THEN StandardTokenAt(text, TokenEnd(after)) ELSE after

\* the clause has consumed `token`
ConsumedByClause(token) ==
    TokenEnd(token) <= tokenizer.end_idx_of_last_consumed_token

\* the field that starts at `start`: an AS after its expression is consumed,
\* and its alias is the token in the place of the alias, consumed, when that
\* token is a name that is no keyword or a double-quoted string, None if not
AsAndAlias(field, start) ==
    /\ IsName(AfterExpression(field, start), "AS") =>
          ConsumedByClause(AfterExpression(field, start))
    /\ IF IsAlias(InAliasPlace(AfterExpression(field, start)))
       THEN /\ field.alias_name = InAliasPlace(AfterExpression(field, start))
            /\ ConsumedByClause(field.alias_name)
       ELSE field.alias_name = None

\* no UnknownSequence of the statement s holds `token`
InNoUnknown(s, token) ==
    \A i \in 1..Len(s.unknowns) :
        ~(s.unknowns[i].start <= token.start
            /\ token.start < s.unknowns[i].start + s.unknowns[i].length)

\* the first field of the first clause of the statement s
FirstField(s) ==
    IF s.selects # <<>> THEN s.selects[1].fields[1] ELSE s.froms[1].fields[1]

\* C27: in a SELECT or FROM field an AS after the expression is consumed,
\* and an alias is recorded exactly when the next standard token is a name
\* that is no keyword or a double-quoted string, which is consumed as the
\* alias; an AS followed by another token is consumed, the field has no
\* alias, and no UnknownSequence is recorded for the AS: "select a as, b"
\* gives the fields a and b without alias and no UnknownSequence
C27_AsAndAlias ==
    /\ pc = "clause" =>
        \A j \in 1..Len(ret.fields) :
            AsAndAlias(ret.fields[j], FieldStart(LoopCommas(ret), j))
    /\ (pc = "statement" /\ input.family = "fields"
            /\ IsName(AfterExpression(FirstField(ret), FieldStart({}, 1)), "AS")) =>
        InNoUnknown(ret, AfterExpression(FirstField(ret), FieldStart({}, 1)))
    /\ (pc = "statement" /\ text = TextAsComma) =>
        /\ ret.unknowns = <<>>
        /\ Len(ret.selects) = 1
        /\ Len(ret.selects[1].fields) = 2
        /\ ret.selects[1].fields[1].alias_name = None
        /\ ret.selects[1].fields[2].alias_name = None
        /\ TokenText(text, ret.selects[1].fields[2].expression.token) = <<"b">>

\* an AS that a comma follows has been consumed: the clause has gone on to
\* its second field, and the first has no alias
C27_Witness ==
    /\ pc = "clause"
    /\ Len(ret.fields) = 2
    /\ IsName(AfterExpression(ret.fields[1], FieldStart({}, 1)), "AS")
    /\ IsPunctuation(InAliasPlace(AfterExpression(ret.fields[1], FieldStart({}, 1))),
                     "COMMA")
    /\ ExpressionOf(ret.fields[1]).kind = "ValueExpression"
    /\ ret.fields[1].alias_name = None
    /\ ExpressionOf(ret.fields[2]).kind = "ValueExpression"

-----------------------------------------------------------------------------
(* A tokenizer created at an offset and consumed to the end                 *)
(* (OffsetLexSpec).                                                         *)

OffsetLexInit ==
    /\ text \in TextsUpTo(LexChars, MaxChars)
    /\ input = [family |-> "characters", parts |-> <<text>>, sep |-> <<>>]
    /\ start_offset \in 0..Len(text)
    /\ tokenizer = NewTokenizer(start_offset)
    /\ consumed = <<>>
    /\ peeked = {}
    /\ last = [op |-> "init", k |-> 0, token |-> None, promised |-> {}]
    /\ NoParser

OffsetLexSpec == OffsetLexInit /\ [][LexNext]_vars

\* the tags and the kinds a token can have
TokenKinds ==
    [NameToken |-> {k.type : k \in NameKeywords} \cup {"NON_KEYWORD"},
     NumberToken |-> {"NumberToken"},
     PunctuationToken |-> {k.type : k \in PunctuationKinds}
                              \cup {text_to_non_operators(c) : c \in NonOperatorChars}
                              \cup {"UNKNOWN_OPERATOR"},
     SpecialToken |-> {"SINGLE_QUOTE_STRING", "DOUBLE_QUOTE_STRING",
                       "SINGLE_LINE_COMMENT", "MULTI_LINE_COMMENT",
                       "END_OF_STRING"}]

\* the token is a token of the token model, and it says it has no end
\* sequence only when it is a string or a block comment that runs to the end
\* of the text
WellFormedToken(token) ==
    /\ token.tag \in DOMAIN TokenKinds
    /\ token.type \in TokenKinds[token.tag]
    /\ ~token.has_end_sequence =>
          /\ token.type \in {"SINGLE_QUOTE_STRING", "DOUBLE_QUOTE_STRING",
                             "MULTI_LINE_COMMENT"}
          /\ TokenEnd(token) = Len(text)

\* C28: for a start offset in the text, every token consume() returns lies
\* in the text, 0 <= start and start + length <= len(text); every token but
\* END_OF_STRING has length >= 1; a token starts at or after the end of the
\* token before it, and no earlier than the offset; so at most len(text)
\* tokens come before END_OF_STRING; a token is always returned, and bad
\* input shows only as has_end_sequence False or as UNKNOWN_OPERATOR
C28_TokenizerProgress ==
    /\ \A i \in 1..Len(consumed) :
          /\ consumed[i].start >= 0
          /\ consumed[i].start >= start_offset
          /\ consumed[i].start + consumed[i].length <= Len(text)
          /\ ~IsEOS(consumed[i]) => consumed[i].length >= 1
          /\ i > 1 => consumed[i].start >= TokenEnd(consumed[i - 1])
          /\ WellFormedToken(consumed[i])
    /\ Len(consumed) <= Len(text) + 1
    /\ Len(consumed) = Len(text) + 1 => IsEOS(consumed[Len(consumed)])
    /\ tokenizer.end_idx_of_last_consumed_token
          = IF consumed = <<>> THEN -1 ELSE TokenEnd(consumed[Len(consumed)])

\* a tokenizer created after the start of the text has given an operator it
\* does not know and a string that is not closed, then END_OF_STRING
C28_Witness ==
    /\ AtEnd
    /\ start_offset > 0
    /\ \E i \in 1..Len(consumed) : consumed[i].type = "UNKNOWN_OPERATOR"
    /\ \E i \in 1..Len(consumed) :
          ~consumed[i].has_end_sequence /\ consumed[i].start > start_offset

-----------------------------------------------------------------------------
(* parse_expression: the operators of a tree and the ceilings.             *)

\* the operators of e are those the parse_expression call that built e lets
\* in under `ceiling`: the operator of a BinaryExpression is a key of
\* operator_to_precedence of precedence <= ceiling, its left operand was
\* built by the same call, its right operand by a call under the precedence
\* of the operator minus one, and the inner expression of a parenthesis by a
\* call under comma_precedence
RECURSIVE OperatorsUnder(_, _)
OperatorsUnder(e, ceiling) ==
    CASE e.kind = "ParenExpression" -> OperatorsUnder(e.expr, comma_precedence)
      [] e.kind = "BinaryExpression" ->
            /\ e.operator.type \in PrecedenceKeys
            /\ operator_to_precedence(e.operator.type) <= ceiling
            /\ OperatorsUnder(e.left, ceiling)
            /\ OperatorsUnder(e.right,
                              operator_to_precedence(e.operator.type) - 1)
      [] OTHER -> TRUE

\* the ceiling under which the expressions of a clause list are parsed
CeilingOf(list) ==
    IF list = "froms" THEN operator_to_precedence("DOT")
    ELSE comma_precedence - 1

\* the expressions of the clauses of one list of a statement
ListExpressions(s, list) ==
    CASE list = "selects" ->
            UNION {{s.selects[i].fields[j].expression :
                        j \in 1..Len(s.selects[i].fields)} :
                            i \in 1..Len(s.selects)}
      [] list = "froms" ->
            UNION {{s.froms[i].fields[j].table_name :
                        j \in 1..Len(s.froms[i].fields)} :
                            i \in 1..Len(s.froms)}
      [] list = "wheres" -> {s.wheres[i].expression : i \in 1..Len(s.wheres)}

\* C29: the operator of every BinaryExpression the parser builds is a key of
\* operator_to_precedence, of precedence at most the ceiling of the
\* parse_expression call that consumed it: 99 at the top of a SELECT field
\* and of a WHERE, 1 at the top of a FROM field, 100 directly inside a
\* parenthesis, the precedence of the operator on the left minus one in a
\* right operand; so operator_to_precedence[operator.type] never misses
C29_OperatorsUnderCeiling ==
    /\ pc = "expression" =>
        OperatorsUnder(ret.expression, ret.expression_precedence)
    /\ pc \in {"parse_all", "returned"} =>
        \A n \in 1..Len(ret) : \A list \in ClauseLists :
            \A x \in ListExpressions(ret[n], list) :
                OperatorsUnder(x, CeilingOf(list))

\* parse_expression under the ceiling of a FROM field has returned a
\* BinaryExpression and left an operator of a higher precedence, a key of
\* the table too, unconsumed after it
C29_Witness ==
    /\ pc = "expression"
    /\ ret.expression_precedence = operator_to_precedence("DOT")
    /\ ret.expression.kind = "BinaryExpression"
    /\ tokenizer.end_idx_of_last_consumed_token < Len(text)
    /\ StandardTokenAt(text, tokenizer.end_idx_of_last_consumed_token).type
          \in PrecedenceKeys
-----------------------------------------------------------------------------
(* formatter.py: Formatter.  A result is the string made, or raised with   *)
(* the exception the Python statement raises.                              *)

Made(v) == [raised |-> FALSE, exception |-> "", v |-> v]

Raise(exception) == [raised |-> TRUE, exception |-> exception, v |-> <<>>]

\* text[token.start : token.start + token.length]
TextOf(txt, token) == Slice(txt, token.start, token.start + token.length)

\* the BinaryExpression branch of format_expression, left and right made
FormatBinary(txt, expression, left, right) ==
    IF left.raised THEN left
    ELSE IF right.raised THEN right
    ELSE IF expression.operator.type \notin PrecedenceKeys
    THEN Raise("KeyError")
    ELSE IF operator_to_precedence(expression.operator.type) <= 2
    THEN Made(left.v \o TextOf(txt, expression.operator) \o right.v)
    ELSE Made(left.v \o <<" ">> \o TextOf(txt, expression.operator)
                  \o <<" ">> \o right.v)

\* the ParenExpression branch of format_expression, the inside made
FormatParen(inside) ==
    IF inside.raised THEN inside ELSE Made(<<"(">> \o inside.v \o <<")">>)

\* Formatter.format_expression(text, expression)
RECURSIVE format_expression(_, _)
format_expression(txt, expression) ==
    CASE expression.kind = "ValueExpression" ->
            Made(TextOf(txt, expression.token))
      [] expression.kind = "ParenExpression" ->
            FormatParen(format_expression(txt, expression.expr))
      [] expression.kind = "BinaryExpression" ->
            FormatBinary(txt, expression,
                         format_expression(txt, expression.left),
                         format_expression(txt, expression.right))
      [] expression.kind = "PlaceholderExpression" ->
            Made(<<expression.placeholder_text>>)

\* the `for comment in statement.comments` of format_statement
RECURSIVE FormatComments(_, _)
FormatComments(txt, comments) ==
    IF comments = <<>> THEN <<>>
    ELSE TextOf(txt, Head(comments))
         \o (IF ~Head(comments).has_end_sequence THEN <<" ", "*", "/">> ELSE <<>>)
         \o <<"\n">>
         \o FormatComments(txt, Tail(comments))

\* the character U+0060, which a string of the model cannot hold
Backquote == "U+0060"

\* the `for unknown in statement.unknowns` of format_statement
RECURSIVE FormatUnknowns(_, _)
FormatUnknowns(txt, unknowns) ==
    IF unknowns = <<>> THEN <<>>
    ELSE <<"-", "-", " ", "U", "N", "K", "N", "O", "W", "N", " ", "S", "E",
           "Q", "U", "E", "N", "C", "E", ":", " ", Backquote>>
         \o TextOf(txt, Head(unknowns)) \o <<Backquote, "\n">>
         \o FormatUnknowns(txt, Tail(unknowns))

\* the line written before the selects
SelectHeader(statement) ==
    IF statement.selects = <<>>
    THEN IF statement.froms # <<>>
         THEN <<"S", "E", "L", "E", "C", "T", " ", "*", "\n">> ELSE <<>>
    ELSE <<"S", "E", "L", "E", "C", "T", "\n">>

\* ' AS ' and the alias of a field; closes_quote: the field is a SELECT field
AliasString(txt, alias_name, closes_quote) ==
    IF alias_name = None THEN <<>>
    ELSE <<" ", "A", "S", " ">> \o TextOf(txt, alias_name)
         \o (IF /\ closes_quote
                /\ IsSpecial(alias_name, "DOUBLE_QUOTE_STRING")
                /\ ~alias_name.has_end_sequence
             THEN <<"\"">> ELSE <<>>)

\* the strings of the fields of a SELECT clause from the i-th field on
RECURSIVE SelectFieldStrings(_, _, _)
SelectFieldStrings(txt, fields, i) ==
    IF i > Len(fields) THEN [raised |-> FALSE, exception |-> "", v |-> <<>>]
    ELSE LET e == format_expression(txt, fields[i].expression)
             rest == SelectFieldStrings(txt, fields, i + 1)
         IN  IF e.raised THEN e
             ELSE IF rest.raised THEN rest
             ELSE Made(<<e.v \o AliasString(txt, fields[i].alias_name, TRUE)>>
                       \o rest.v)

\* the line of a clause: the fields joined, a comma unless the clause is the
\* last of its list
ClauseLine(strings, idx, n) ==
    <<" ", " ", " ", " ">> \o Join(strings, <<",", " ">>)
        \o (IF idx < n - 1 THEN <<",">> ELSE <<>>) \o <<"\n">>

\* the `for idx, select in enumerate(statement.selects)`, from index idx on
RECURSIVE FormatSelects(_, _, _)
FormatSelects(txt, selects, idx) ==
    IF idx >= Len(selects) THEN Made(<<>>)
    ELSE LET strings == SelectFieldStrings(txt, selects[idx + 1].fields, 1)
             rest == FormatSelects(txt, selects, idx + 1)
         IN  IF strings.raised THEN strings
             ELSE IF rest.raised THEN rest
             ELSE Made(ClauseLine(strings.v, idx, Len(selects)) \o rest.v)

\* the table of the field is a name
IsTableName(field) ==
    /\ field.table_name.kind = "ValueExpression"
    /\ field.table_name.token.tag = "NameToken"

\* the strings of the fields of a FROM clause from the i-th field on, and
\* seen_tables after them
RECURSIVE FromFieldStrings(_, _, _, _)
FromFieldStrings(txt, fields, i, seen_tables) ==
    IF i > Len(fields)
    THEN [raised |-> FALSE, exception |-> "", v |-> <<>>,
          seen_tables |-> seen_tables]
    ELSE IF /\ IsTableName(fields[i])
            /\ TextOf(txt, fields[i].table_name.token) \in seen_tables
    THEN FromFieldStrings(txt, fields, i + 1, seen_tables)
    ELSE LET e == format_expression(txt, fields[i].table_name)
             rest == FromFieldStrings(txt, fields, i + 1,
                         IF IsTableName(fields[i])
                         THEN seen_tables
                                \cup {TextOf(txt, fields[i].table_name.token)}
                         ELSE seen_tables)
         IN  IF e.raised
             THEN [raised |-> TRUE, exception |-> e.exception, v |-> <<>>,
                   seen_tables |-> seen_tables]
             ELSE IF rest.raised THEN rest
             ELSE [raised |-> FALSE, exception |-> "",
                   v |-> <<e.v \o AliasString(txt, fields[i].alias_name, FALSE)>>
                            \o rest.v,
                   seen_tables |-> rest.seen_tables]

\* the `for idx, from_ in enumerate(statement.froms)`, from index idx on
RECURSIVE FormatFroms(_, _, _, _)
FormatFroms(txt, froms, idx, seen_tables) ==
    IF idx >= Len(froms) THEN Made(<<>>)
    ELSE LET strings == FromFieldStrings(txt, froms[idx + 1].fields, 1,
                                         seen_tables)
             rest == FormatFroms(txt, froms, idx + 1, strings.seen_tables)
         IN  IF strings.raised THEN Raise(strings.exception)
             ELSE IF rest.raised THEN rest
             ELSE Made(ClauseLine(strings.v, idx, Len(froms)) \o rest.v)

\* the line written before the froms
FromHeader(statement) ==
    IF statement.froms # <<>> THEN <<"F", "R", "O", "M", "\n">> ELSE <<>>

\* `while ret[last_char].isspace() or ret[last_char] == ','` and the
\* `ret = ret[:last_char+1] + '\n'` after it; ret[last_char] raises when
\* last_char is before the start of the string
RECURSIVE TrimEnd(_, _)
TrimEnd(string, last_char) ==
    IF -last_char > Len(string) THEN Raise("IndexError")
    ELSE IF isspace(string[Len(string) + 1 + last_char])
            \/ string[Len(string) + 1 + last_char] = ","
    THEN TrimEnd(string, last_char - 1)
    ELSE Made(SubSeq(string, 1, Len(string) + 1 + last_char) \o <<"\n">>)

\* the expression of a WHERE, in parentheses when its operator binds less
\* than AND
WhereString(txt, where) ==
    IF where.expression.kind = "BinaryExpression"
       /\ where.expression.operator.type \notin PrecedenceKeys
    THEN Raise("KeyError")
    ELSE IF /\ where.expression.kind = "BinaryExpression"
            /\ operator_to_precedence(where.expression.operator.type)
                  > operator_to_precedence("AND")
    THEN FormatParen(format_expression(txt, where.expression))
    ELSE format_expression(txt, where.expression)

\* the `for idx, where in enumerate(statement.wheres)`, from index idx on
RECURSIVE FormatWheres(_, _, _)
FormatWheres(txt, wheres, idx) ==
    IF idx >= Len(wheres) THEN Made(<<>>)
    ELSE LET e == WhereString(txt, wheres[idx + 1])
             rest == FormatWheres(txt, wheres, idx + 1)
         IN  IF e.raised THEN e
             ELSE IF rest.raised THEN rest
             ELSE Made((IF idx = 0 THEN <<"W", "H", "E", "R", "E", " ">>
                        ELSE <<"A", "N", "D", " ">>)
                       \o e.v \o <<"\n">> \o rest.v)

\* format_statement from the trim on: s and f are the selects and the froms
\* made, head what was written before them
FormatTail(txt, statement, head, s, f) ==
    IF s.raised THEN s
    ELSE IF f.raised THEN f
    ELSE LET t == TrimEnd(head \o s.v \o FromHeader(statement) \o f.v, -1)
             w == FormatWheres(txt, statement.wheres, 0)
         IN  IF t.raised THEN t
             ELSE IF w.raised THEN w
             ELSE Made(t.v \o w.v)

\* Formatter.format_statement(text, statement)
format_statement(txt, statement) ==
    FormatTail(txt, statement,
               FormatComments(txt, statement.comments)
                   \o FormatUnknowns(txt, statement.unknowns)
                   \o SelectHeader(statement),
               FormatSelects(txt, statement.selects, 0),
               FormatFroms(txt, statement.froms, 0, {}))

-----------------------------------------------------------------------------
(* parse_all, then format_statement on one of the statements               *)
(* (FormatSpec).                                                           *)

\* select a;;where b
TextSelectThenWhere ==
    <<"s", "e", "l", "e", "c", "t", " ", "a", ";", ";", "w", "h", "e", "r",
      "e", " ", "b">>

\* from a, a b, (a) -- c
TextFromTwice ==
    <<"f", "r", "o", "m", " ", "a", ",", " ", "a", " ", "b", ",", " ", "(",
      "a", ")", " ", "-", "-", " ", "c">>

FormatInputs ==
    {i \in ParserInputs : i.family \in {"clauses", "recovery"}}
    \cup {[family |-> "examples", parts |-> <<e>>, sep |-> <<>>] :
            e \in Examples \cup {TextSelectThenWhere, TextFromTwice}}

FormatInit ==
    /\ input \in FormatInputs
    /\ text = Join(input.parts, input.sep)
    /\ start_offset = 0
    /\ tokenizer = NewTokenizer(start_offset)
    /\ consumed = <<>>
    /\ peeked = {}
    /\ last = [op |-> "init", k |-> 0, token |-> None, promised |-> {}]
    /\ pc = "start"
    /\ ret = <<>>
    /\ stalled = FALSE
    /\ raised = FALSE

\* f is what format_statement made of `statement`
Formatted(statement, f) ==
    /\ ret' = [statement |-> statement, formatted |-> f.v,
               exception |-> f.exception]
    /\ raised' = f.raised
    /\ pc' = IF f.raised THEN "raised" ELSE "formatted"

\* Formatter().format_statement(text, statement) on a statement parse_all
\* returned
CallFormatStatement ==
    /\ pc = "returned"
    /\ \E n \in 1..Len(ret) :
          \E f \in {format_statement(text, ret[n])} : Formatted(ret[n], f)
    /\ UNCHANGED <<text, tokenizer, consumed, peeked, last, start_offset,
                   input, stalled>>

FormatNext ==
    \/ ParseAllBegin
    \/ ParseAllIteration
    \/ CallFormatStatement

FormatSpec == FormatInit /\ [][FormatNext]_vars

\* C30: Formatter.format_statement(text, statement) returns a string and
\* does not raise, for every Statement of parse_all(text), whichever of its
\* selects, froms, wheres, comments and unknowns are empty
C30_FormatNeverRaises ==
    /\ ~raised
    /\ pc = "formatted" => ret.formatted # <<>>

====
